---- MODULE Spec2Model ----
(***************************************************************************)
(* Model of the reattachable execution-stream client of Spark Connect's   *)
(* Python client (python/pyspark/sql/connect/client/reattach.py,          *)
(* ExecutePlanResponseReattachableIterator) together with the server and  *)
(* transport it talks to.                                                  *)
(*                                                                         *)
(* The client is modelled statement group by statement group: pc is the   *)
(* position of the consumer thread inside send()/_has_next(), and every   *)
(* blocking transport call (a pull from the response stream, a reattach)  *)
(* is a step of its own, so that the detached release threads and the     *)
(* server interleave with it.                                              *)
(***************************************************************************)
EXTENDS Integers, Sequences, FiniteSets, TLC

\* Bounds of the model.
MaxUnits == 4       \* response units of the operation: 1..MaxUnits
MaxFaults == 2      \* transport faults (errors, early graceful ends) injected
MaxRetries == 1     \* max_retries of the injected retry policy
MaxCloses == 1      \* close() / __del__ calls between two next() calls
MaxFrames == 2      \* objects handed to FramedSerializer.dump_stream
MaxRecords == 3     \* records of mixed widths handed to a batching dump_stream
MaxSmall == 8       \* small records at the head of a stream that changes width
MaxLarge == 5       \* records 20 times larger at its tail
MaxBatchSize == 2   \* fixed batch sizes: 1..MaxBatchSize
MaxBatches == 2     \* batches on each side of a pair / cartesian stream
MaxBatchLen == 2    \* items in one such batch

VARIABLES
    numUnits,                   \* number of units the server produces
    emptyAt,                    \* position of a unit whose response_id is "", 0 if none
    resume_policy,              \* how the server chooses where a reattach resumes
    initial_request,            \* self._initial_request (reattach.py:69)
    operation_id,               \* self._operation_id (reattach.py:58-65)
    last_returned_response_id,  \* self._last_returned_response_id (reattach.py:72)
    result_complete,            \* self._result_complete (reattach.py:77)
    iterator,                   \* self._iterator (reattach.py:80)
    current,                    \* self._current (reattach.py:85), 0 is None
    pc,                         \* position of the consumer inside send()
    first_try,                  \* local first_try of _has_next (reattach.py:113)
    first_loop,                 \* local first_loop of _has_next (reattach.py:139)
    retry_count,                \* retries used by the Retrying loop of this call
    outcome,                    \* how the last next() call ended
    requests,                   \* every request handed to the stub, in order
    inflight,                   \* release requests whose thread has not finished
    srvSent,                    \* server: highest unit put on any stream
    srvReleased,                \* server: highest position released through
    srvFreed,                   \* server: operation released completely
    faults,                     \* transport faults injected so far
    returned,                   \* history: units returned by next(), in order
    emptyInCall,                \* history: streams that ended empty in this call
    reattachInCall,             \* history: reattach requests sent in this call
    closed,                     \* history: close() calls since the last next() call
    serializer,                 \* the serializer object in use (serializers.py)
    source,                     \* the input the serializer run started from
    records,                    \* dump_stream: items of the iterator not yet taken
    stream,                     \* the byte stream: written so far / not yet read
    cut,                        \* bytes of the written stream the reader got, -1: all
    loaded,                     \* load_stream: items yielded so far
    ser_pc,                     \* position of the serializer run
    raised,                     \* exception that ended the serializer run
    batch,                      \* AutoBatchedSerializer.dump_stream: local batch
    emitted,                    \* history: batches written by dump_stream
    progress,                   \* a Progress object and its output (progress.py)
    call                        \* a call of a function: its arguments, position, result

vars == <<numUnits, emptyAt, resume_policy, initial_request, operation_id,
          last_returned_response_id, result_complete, iterator, current, pc,
          first_try, first_loop, retry_count, outcome, requests, inflight,
          srvSent, srvReleased, srvFreed, faults, returned, emptyInCall,
          reattachInCall, closed, serializer, source, records, stream, cut,
          loaded, ser_pc, raised, batch, emitted, progress, call>>

serverVars == <<srvSent, srvReleased, srvFreed>>
setupVars == <<numUnits, emptyAt, resume_policy, initial_request, operation_id>>
iteratorVars == <<setupVars, serverVars, last_returned_response_id,
                  result_complete, iterator, current, pc, first_try, first_loop,
                  retry_count, outcome, requests, inflight, faults, returned,
                  emptyInCall, reattachInCall, closed>>
serVars == <<serializer, source, records, stream, cut, loaded, ser_pc, raised,
             batch, emitted>>
utilVars == <<progress, call>>

----------------------------------------------------------------------------
\* Values

\* Python's None for an Optional[str].
None == "None"

\* Truth value of an Optional[str] in a Python condition: None and "" are false.
Truthy(s) == s # None /\ s # ""

Max(a, b) == IF a >= b THEN a ELSE b

\* The response_id the server gives the unit at position i.
ResponseId(i) == IF i = emptyAt THEN "" ELSE ToString(i)

\* The ExecutePlanResponse at position i; the last one carries the final marker.
Unit(i) == [response_id |-> ResponseId(i), response_complete |-> (i = numUnits)]

\* Position of a response_id in the server's sequence (0 for None).
Position(rid) ==
    IF rid = None THEN 0
    ELSE CHOOSE i \in 1..numUnits : ResponseId(i) = rid

----------------------------------------------------------------------------
\* Requests (reattach.py:79-82, 187-216)

\* A call of stub method rpc with message msg, as the transport sees it.
Call(rpc, msg) == [rpc |-> rpc] @@ msg

\* The ExecutePlanRequest handed to the stub at construction: the caller's
\* request with reattachable set; its operation_id field is left as it came.
InitialExecuteRequest ==
    [operation_id |-> initial_request.operation_id,
     reattachable |-> initial_request.reattachable,
     last_response_id |-> None,
     release |-> "none",
     response_id |-> None]

\* _create_reattach_execute_request: session, user context, operation id and
\* client type of the initial request; no other field is set.
CreateReattachExecuteRequest ==
    [operation_id |-> initial_request.operation_id,
     reattachable |-> FALSE,
     last_response_id |-> None,
     release |-> "none",
     response_id |-> None]

\* _create_release_execute_request(until_response_id): release_all when
\* `not until_response_id`, otherwise release until that response id.
CreateReleaseExecuteRequest(until_response_id) ==
    [operation_id |-> initial_request.operation_id,
     reattachable |-> FALSE,
     last_response_id |-> None,
     release |-> IF ~Truthy(until_response_id) THEN "release_all"
                 ELSE "release_until",
     response_id |-> IF ~Truthy(until_response_id) THEN None
                     ELSE until_response_id]

\* Variant: the stream is re-opened with a second ExecutePlan call.
ReattachRpcMut == "ExecutePlan"

\* The stub method used to re-open the response stream (reattach.py:123, 142).
ReattachRpc == "ReattachExecute"

----------------------------------------------------------------------------
\* Server and transport (external collaborators)

\* The id-th response stream opened for the operation (1 is the stream of the
\* ExecutePlan call), positioned at unit `next`.
Stream(id, next, status) == [id |-> id, next |-> next, status |-> status]

\* The stream the server opens for a reattach request.  The request names no
\* position, so the server resumes from its own bookkeeping: a scripted
\* transport continues after what it has already put on a stream; a
\* release-driven server resends everything after the last released unit and
\* refuses an operation it has freed.
ServerOpenStream ==
    IF resume_policy = "scripted" THEN Stream(iterator.id + 1, srvSent + 1, "open")
    ELSE IF srvFreed THEN Stream(iterator.id + 1, numUnits + 1, "fatal")
    ELSE Stream(iterator.id + 1, srvReleased + 1, "open")

\* The outcomes of one pull `next(self._iterator)` on stream it:
\*   kind "unit": the next unit; "stop": StopIteration (the stream ended);
\*   "retryable" / "fatal": a transport error of that class.
\* A stream that has ended or failed keeps answering the same way.
PullOutcomes(it) ==
    IF it.status = "ended" THEN {[kind |-> "stop", unit |-> 0, it |-> it, fault |-> 0]}
    ELSE IF it.status \in {"retryable", "fatal"}
         THEN {[kind |-> it.status, unit |-> 0, it |-> it, fault |-> 0]}
    ELSE IF it.next > numUnits
         THEN {[kind |-> "stop", unit |-> 0, it |-> Stream(it.id, it.next, "ended"),
               fault |-> 0]}
    ELSE {[kind |-> "unit", unit |-> it.next, it |-> Stream(it.id, it.next + 1, "open"),
           fault |-> 0]}
         \cup
         (IF faults < MaxFaults
          THEN {[kind |-> k, unit |-> 0,
                 it |-> Stream(it.id, it.next, IF k = "stop" THEN "ended" ELSE k),
                 fault |-> 1] : k \in {"stop", "retryable", "fatal"}}
          ELSE {})

\* The server's state after it has processed release request r.
ServerProcessRelease(r) ==
    IF r.release = "release_all"
    THEN [released |-> srvReleased, freed |-> TRUE]
    ELSE [released |-> Max(srvReleased, Position(r.response_id)), freed |-> srvFreed]

\* No close() call has been made since the last next() call.
NoClose == [calls |-> 0, by |-> "none", result |-> "none"]

----------------------------------------------------------------------------
\* Initial state: the iterator right after __init__ (reattach.py:50-85)

IteratorInit ==
    /\ numUnits \in 1..MaxUnits
    /\ emptyAt \in {0, 1}
    /\ resume_policy \in {"scripted", "released"}
    /\ \E op \in {"", "op-1"} :
          /\ initial_request = [operation_id |-> op, reattachable |-> TRUE]
          /\ operation_id = IF op # "" THEN op ELSE "uuid4"
    /\ last_returned_response_id = None
    /\ result_complete = FALSE
    /\ iterator = Stream(1, 1, "open")
    /\ current = 0
    /\ pc = "idle"
    /\ first_try = FALSE
    /\ first_loop = FALSE
    /\ retry_count = 0
    /\ outcome = "none"
    /\ requests = <<Call("ExecutePlan", InitialExecuteRequest)>>
    /\ inflight = {}
    /\ srvSent = 0
    /\ srvReleased = 0
    /\ srvFreed = FALSE
    /\ faults = 0
    /\ returned = <<>>
    /\ emptyInCall = 0
    /\ reattachInCall = 0
    /\ closed = NoClose

\* No serializer run is part of the iterator's behaviours.
SerializersOff ==
    /\ serializer = [class |-> "none", serializer |-> "none", batchSize |-> 0,
                     bestSize |-> 0]
    /\ source = <<>>
    /\ records = <<>>
    /\ stream = <<>>
    /\ cut = -1
    /\ loaded = <<>>
    /\ ser_pc = "off"
    /\ raised = "none"
    /\ batch = 0
    /\ emitted = <<>>

\* No Progress object exists and no function of pandas/types.py is called.
NoProgress ==
    [enabled |-> FALSE, ticks |-> 0, tick |-> 0, bytes_read |-> 0,
     max_printed |-> 0, out |-> <<>>, calls |-> <<>>, switch |-> FALSE,
     pc |-> "off"]
NoCall == [fn |-> "none", args |-> <<>>, pc |-> "off", result |-> <<>>]
UtilitiesOff == progress = NoProgress /\ call = NoCall

Init == IteratorInit /\ SerializersOff /\ UtilitiesOff

----------------------------------------------------------------------------
\* Pieces of _has_next and send (reattach.py:87-159)

\* Variant: _has_next without the result_complete check.
HasNextCompleteMut == FALSE

\* `if self._result_complete: return False` (reattach.py:109-111).
HasNextComplete == result_complete

\* Variant: the handler also swallows a non-retryable transport error.
CaughtMut(kind) == kind \in {"stop", "fatal"}

\* `except StopIteration: pass` around the pull (reattach.py:128-131, 147-150):
\* the only pull outcome the handler swallows.
Caught(kind) == kind = "stop"

\* Variant: the graceful reattach is tried once instead of in a loop.
GracefulLoopCondMut(has_next, fl) == fl

\* `while not has_next or first_loop` (reattach.py:141).
GracefulLoopCond(has_next, fl) == ~has_next \/ fl

\* Variant: send returns without clearing self._current.
CurrentAfterReturnMut == current

\* `self._current = None` before send returns (reattach.py:103).
CurrentAfterReturn == 0

\* The argument of _release_execute for unit u (reattach.py:98-102).
ReleaseArgument(u) ==
    IF Unit(u).response_complete THEN None ELSE last_returned_response_id

\* Retrying / AttemptManager: an exception leaving `with attempt` is swallowed
\* and the loop makes another attempt iff the policy classifies it retryable
\* and retries are left; otherwise it is raised to the caller of _has_next.
CanRetry(kind) == kind = "retryable" /\ retry_count < MaxRetries

\* An exception of class kind leaves the `with attempt` block.
Raise(kind) ==
    IF CanRetry(kind)
    THEN /\ pc' = "attempt"
         /\ retry_count' = retry_count + 1
         /\ outcome' = outcome
    ELSE /\ pc' = "idle"
         /\ retry_count' = retry_count
         /\ outcome' = IF kind = "retryable" THEN "error_retryable" ELSE "error_fatal"

\* `return has_next` with has_next false, then `raise StopIteration()` in send
\* (reattach.py:158, 91-92).
ReturnFalse ==
    /\ pc' = "idle"
    /\ outcome' = "StopIteration"

\* Variant: re-opening the stream also dispatches a release notification for
\* the units returned so far.
ReattachExecuteMut ==
    /\ requests' = Append(Append(requests,
                                 Call("ReleaseExecute",
                                      CreateReleaseExecuteRequest(last_returned_response_id))),
                          Call(ReattachRpc, CreateReattachExecuteRequest))
    /\ iterator' = ServerOpenStream
    /\ reattachInCall' = reattachInCall + 1

\* `self._iterator = self._stub.ReattachExecute(self._create_reattach_execute_request())`
\* (reattach.py:123-125, 142-144).
ReattachExecute ==
    /\ requests' = Append(requests, Call(ReattachRpc, CreateReattachExecuteRequest))
    /\ iterator' = ServerOpenStream
    /\ reattachInCall' = reattachInCall + 1

\* What a pull with outcome o does to the stream, the transport and the history.
PullEffects(o) ==
    /\ iterator' = o.it
    /\ faults' = faults + o.fault
    /\ srvSent' = Max(srvSent, o.unit)

----------------------------------------------------------------------------
\* The consumer: send() / next() (reattach.py:87-104) and _has_next (106-159)

\* send, up to the entry of the Retrying loop of _has_next (reattach.py:87-116).
send ==
    /\ pc = "idle"
    /\ emptyInCall' = 0
    /\ reattachInCall' = 0
    /\ closed' = NoClose
    /\ IF HasNextComplete
       THEN /\ outcome' = "StopIteration"
            /\ UNCHANGED <<pc, first_try, retry_count>>
       ELSE /\ pc' = "attempt"
            /\ first_try' = TRUE
            /\ retry_count' = 0
            /\ outcome' = "pending"
    /\ UNCHANGED <<setupVars, serVars, utilVars, serverVars, last_returned_response_id, result_complete,
                   iterator, current, first_loop, requests, inflight, faults,
                   returned>>

\* Start of one attempt: the first uses the existing iterator, a retry
\* reattaches (reattach.py:117-125).
has_next_attempt ==
    /\ pc = "attempt"
    /\ IF first_try
       THEN /\ first_try' = FALSE
            /\ UNCHANGED <<requests, iterator, reattachInCall>>
       ELSE /\ ReattachExecute
            /\ UNCHANGED first_try
    /\ pc' = "pull"
    /\ UNCHANGED <<setupVars, serVars, utilVars, closed, serverVars, last_returned_response_id, result_complete,
                   current, first_loop, retry_count, outcome, inflight, faults,
                   returned, emptyInCall>>

\* The pull of the attempt and the test that follows it (reattach.py:127-140).
has_next_pull ==
    /\ pc = "pull"
    /\ IF current # 0
       THEN /\ pc' = "advance"
            /\ UNCHANGED <<iterator, faults, srvSent, current,
                           first_loop, retry_count, outcome, emptyInCall>>
       ELSE \E o \in PullOutcomes(iterator) :
            /\ PullEffects(o)
            /\ IF o.kind = "unit"
               THEN /\ current' = o.unit
                    /\ pc' = "advance"
                    /\ UNCHANGED <<first_loop, retry_count, outcome, emptyInCall>>
               ELSE IF Caught(o.kind)
               THEN /\ current' = current
                    /\ emptyInCall' = emptyInCall + 1
                    /\ retry_count' = retry_count
                    /\ IF ~result_complete
                       THEN /\ pc' = "graceful"
                            /\ first_loop' = TRUE
                            /\ outcome' = outcome
                       ELSE /\ ReturnFalse
                            /\ first_loop' = first_loop
               ELSE /\ Raise(o.kind)
                    /\ UNCHANGED <<current, first_loop, emptyInCall>>
    /\ UNCHANGED <<setupVars, serVars, utilVars, closed, srvReleased, srvFreed, last_returned_response_id,
                   result_complete, first_try, requests, inflight, returned,
                   reattachInCall>>

\* The head of the graceful-reattach loop: reattach while the condition holds,
\* else `return has_next` (reattach.py:141-146, 158).
has_next_graceful_reattach ==
    /\ pc = "graceful"
    /\ IF GracefulLoopCond(current # 0, first_loop)
       THEN /\ ReattachExecute
            /\ pc' = "gpull"
            /\ outcome' = outcome
       ELSE /\ IF current # 0
               THEN pc' = "advance" /\ outcome' = outcome
               ELSE ReturnFalse
            /\ UNCHANGED <<requests, iterator, reattachInCall>>
    /\ UNCHANGED <<setupVars, serVars, utilVars, closed, serverVars, last_returned_response_id, result_complete,
                   current, first_try, first_loop, retry_count, inflight, faults,
                   returned, emptyInCall>>

\* The pull inside the graceful-reattach loop (reattach.py:147-157).
has_next_graceful_pull ==
    /\ pc = "gpull"
    /\ \E o \in PullOutcomes(iterator) :
          /\ PullEffects(o)
          /\ IF o.kind = "unit"
             THEN /\ current' = o.unit
                  /\ first_loop' = FALSE
                  /\ pc' = "graceful"
                  /\ UNCHANGED <<retry_count, outcome, emptyInCall>>
             ELSE IF Caught(o.kind)
             THEN /\ current' = current
                  /\ emptyInCall' = emptyInCall + 1
                  /\ first_loop' = FALSE
                  /\ pc' = "graceful"
                  /\ UNCHANGED <<retry_count, outcome>>
             ELSE /\ Raise(o.kind)
                  /\ UNCHANGED <<current, first_loop, emptyInCall>>
    /\ UNCHANGED <<setupVars, serVars, utilVars, closed, srvReleased, srvFreed, last_returned_response_id,
                   result_complete, first_try, requests, inflight, returned,
                   reattachInCall>>

\* send after _has_next returned True: the cursor and the completed flag
\* (reattach.py:94-99).
send_advance ==
    /\ pc = "advance"
    /\ last_returned_response_id' = Unit(current).response_id
    /\ result_complete' = IF Unit(current).response_complete THEN TRUE
                          ELSE result_complete
    /\ pc' = "release"
    /\ UNCHANGED <<setupVars, serVars, utilVars, closed, serverVars, iterator, current, first_try, first_loop,
                   retry_count, outcome, requests, inflight, faults, returned,
                   emptyInCall, reattachInCall>>

\* send: the release notification is built and its thread started, then the
\* unit is returned (reattach.py:98-104, 176, 185).
send_release ==
    /\ pc = "release"
    /\ requests' = Append(requests,
                          Call("ReleaseExecute",
                               CreateReleaseExecuteRequest(ReleaseArgument(current))))
    /\ inflight' = inflight \cup {CreateReleaseExecuteRequest(ReleaseArgument(current))}
    /\ returned' = Append(returned, current)
    /\ current' = CurrentAfterReturn
    /\ pc' = "idle"
    /\ outcome' = "unit"
    /\ UNCHANGED <<setupVars, serVars, utilVars, closed, serverVars, last_returned_response_id, result_complete,
                   iterator, first_try, first_loop, retry_count, faults,
                   emptyInCall, reattachInCall>>

\* Variant: the release notifications reach the server in the order of their
\* dispatch, as if one thread sent them one after the other.
release_targetMut(request) ==
    /\ request \in inflight
    /\ \A other \in inflight :
          \E i \in DOMAIN requests :
             /\ requests[i] = Call("ReleaseExecute", request)
             /\ \A j \in DOMAIN requests :
                   requests[j] = Call("ReleaseExecute", other) => i <= j
    /\ LET after == ServerProcessRelease(request) IN
          /\ srvReleased' = after.released
          /\ srvFreed' = after.freed
    /\ inflight' = inflight \ {request}
    /\ UNCHANGED <<setupVars, serVars, utilVars, closed, last_returned_response_id, result_complete, iterator,
                   current, pc, first_try, first_loop, retry_count, outcome,
                   requests, srvSent, faults, returned, emptyInCall,
                   reattachInCall>>

\* A release thread's ReleaseExecute call reaches the server (reattach.py:178-183).
release_target(request) ==
    /\ request \in inflight
    /\ LET after == ServerProcessRelease(request) IN
          /\ srvReleased' = after.released
          /\ srvFreed' = after.freed
    /\ inflight' = inflight \ {request}
    /\ UNCHANGED <<setupVars, serVars, utilVars, closed, last_returned_response_id, result_complete, iterator,
                   current, pc, first_try, first_loop, retry_count, outcome,
                   requests, srvSent, faults, returned, emptyInCall,
                   reattachInCall>>

\* A release thread ends without its ReleaseExecute call reaching the server:
\* the call kept failing until Retrying gave up, or failed with an error that
\* is not retried; the exception ends target() and with it the thread
\* (reattach.py:178-185).  A call that never completes stays in inflight.
release_target_fails(request) ==
    /\ request \in inflight
    /\ inflight' = inflight \ {request}
    /\ UNCHANGED <<setupVars, serVars, utilVars, closed, serverVars, last_returned_response_id,
                   result_complete, iterator, current, pc, first_try, first_loop,
                   retry_count, outcome, requests, faults, returned, emptyInCall,
                   reattachInCall>>

Next ==
    \/ send
    \/ has_next_attempt
    \/ has_next_pull
    \/ has_next_graceful_reattach
    \/ has_next_graceful_pull
    \/ send_advance
    \/ send_release
    \/ \E request \in inflight : release_target(request)

Spec == Init /\ [][Next]_vars

----------------------------------------------------------------------------
\* close(), throw() and __del__ (reattach.py:218-225)

\* Variant: throw() returns instead of raising.
ThrowMut(type) == "none"

\* throw (reattach.py:218-219) hands the exception type to Generator.throw,
\* which raises it (value and traceback are None): the exception raised.
Throw(type) == type

\* Generator.close: self.throw(GeneratorExit); a GeneratorExit or StopIteration
\* coming back is swallowed, anything else propagates, and a throw that returns
\* makes close raise RuntimeError.
CloseResult ==
    LET exc == Throw("GeneratorExit") IN
    IF exc \in {"GeneratorExit", "StopIteration"} THEN "returned"
    ELSE IF exc = "none" THEN "RuntimeError" ELSE exc

\* What close() does to the iterator, called directly or by __del__.
Close(by) ==
    /\ closed' = [calls |-> closed.calls + 1, by |-> by, result |-> CloseResult]
    /\ UNCHANGED <<setupVars, serVars, utilVars, serverVars, last_returned_response_id,
                   result_complete, iterator, current, pc, first_try, first_loop,
                   retry_count, outcome, requests, inflight, faults, returned,
                   emptyInCall, reattachInCall>>

\* close() called by the consumer between two next() calls (reattach.py:221-222).
close ==
    /\ pc = "idle"
    /\ closed.by # "__del__"
    /\ closed.calls < MaxCloses
    /\ Close("close")

\* __del__ (reattach.py:224-225): the garbage collector finalizes the iterator
\* once nothing refers to it; it calls close().
del ==
    /\ pc = "idle"
    /\ closed.by # "__del__"
    /\ Close("__del__")

\* The iterator with its consumer closing it; a finalized iterator is gone.
NextClose ==
    \/ closed.by # "__del__" /\ Next
    \/ close
    \/ del

SpecClose == Init /\ [][NextClose]_vars

\* The same program over a transport on which release calls can also fail.
NextReleaseFails ==
    \/ Next
    \/ \E request \in inflight : release_target_fails(request)

SpecReleaseFails == Init /\ [][NextReleaseFails]_vars

----------------------------------------------------------------------------
\* Byte strings and integers of the serializers (serializers.py)
\*
\* A byte string is a sequence of runs [b |-> byte, n |-> repetitions], no
\* two neighbouring runs with the same byte, so that a payload of 2^31 - 1
\* bytes is one run.  A Python int that can exceed 32 bits (a len()) is kept
\* as two 16-bit halves [hi, lo] with value hi * 2^16 + lo.

Half == 65536

Run(b, n) == [b |-> b, n |-> n]

\* bs + n times the byte b.
AppendRun(bs, b, n) ==
    IF n = 0 THEN bs
    ELSE IF bs # <<>> /\ bs[Len(bs)].b = b
         THEN [bs EXCEPT ![Len(bs)].n = @ + n]
         ELSE Append(bs, Run(b, n))

\* x + y on byte strings.
RECURSIVE Concat(_, _)
Concat(x, y) ==
    IF y = <<>> THEN x ELSE Concat(AppendRun(x, y[1].b, y[1].n), Tail(y))

\* bytes([b1, b2, ...]).
RECURSIVE BytesOf(_)
BytesOf(seq) ==
    IF seq = <<>> THEN <<>>
    ELSE Concat(<<Run(seq[1], 1)>>, BytesOf(Tail(seq)))

\* bs[:n] and bs[n:] for 0 <= n.
RECURSIVE Take(_, _)
Take(bs, n) ==
    IF n <= 0 \/ bs = <<>> THEN <<>>
    ELSE IF bs[1].n <= n THEN <<bs[1]>> \o Take(Tail(bs), n - bs[1].n)
    ELSE <<Run(bs[1].b, n)>>

RECURSIVE Drop(_, _)
Drop(bs, n) ==
    IF n <= 0 \/ bs = <<>> THEN bs
    ELSE IF bs[1].n <= n THEN Drop(Tail(bs), n - bs[1].n)
    ELSE <<Run(bs[1].b, bs[1].n - n)>> \o Tail(bs)

\* bs[i], 0-based, for i < len(bs).
RECURSIVE ByteAt(_, _)
ByteAt(bs, i) == IF i < bs[1].n THEN bs[1].b ELSE ByteAt(Tail(bs), i - bs[1].n)

\* A Python int from a model integer 0 <= n < 2^31, and the sum of two.
Wide(n) == [hi |-> n \div Half, lo |-> n % Half]
WideAdd(x, y) ==
    [hi |-> x.hi + y.hi + (x.lo + y.lo) \div Half, lo |-> (x.lo + y.lo) % Half]
WideLess(x, y) == x.hi < y.hi \/ (x.hi = y.hi /\ x.lo < y.lo)

\* len(bs).
RECURSIVE PyLen(_)
PyLen(bs) ==
    IF bs = <<>> THEN Wide(0) ELSE WideAdd(Wide(bs[1].n), PyLen(Tail(bs)))

\* stream.read(n) on the unread rest of a stream: a negative n reads to the end.
StreamRead(rest, n) ==
    IF n < 0 THEN [data |-> rest, rest |-> <<>>]
    ELSE [data |-> Take(rest, n), rest |-> Drop(rest, n)]

----------------------------------------------------------------------------
\* Python objects handed to and returned by the serializers

PyNone == [type |-> "NoneType", value |-> <<>>]
PyBytes(bs) == [type |-> "bytes", value |-> bs]
PyList(items) == [type |-> "list", value |-> items]

\* SpecialLengths (serializers.py:76-81).
END_OF_DATA_SECTION == -1
NULL == -5

\* 1 << 31 (serializers.py:149).
ShiftLeft31 == [hi |-> 32768, lo |-> 0]

\* A record of a data set: n bytes of content, all of them the byte v.
Record(v, n) == [v |-> v, n |-> n]

\* Stand-in for pickle.dumps of a list of records: every record as one byte
\* holding its content length followed by its content.
RECURSIVE Pickle(_)
Pickle(items) ==
    IF items = <<>> THEN <<>>
    ELSE Concat(Concat(<<Run(items[1].n, 1)>>, <<Run(items[1].v, items[1].n)>>),
                Pickle(Tail(items)))

\* Whether bs is the pickle of a list of records, and that list.
RECURSIVE Unpickles(_)
Unpickles(bs) ==
    \/ bs = <<>>
    \/ LET n == ByteAt(bs, 0)
           body == Take(Drop(bs, 1), n)
       IN  /\ n >= 1
           /\ body = <<Run(body[1].b, n)>>
           /\ Unpickles(Drop(bs, 1 + n))

RECURSIVE Unpickle(_)
Unpickle(bs) ==
    IF bs = <<>> THEN <<>>
    ELSE LET n == ByteAt(bs, 0) IN
         <<Record(ByteAt(bs, 1), n)>> \o Unpickle(Drop(bs, 1 + n))

\* serializer.dumps(obj): NoOpSerializer returns obj itself
\* (serializers.py:336-337), PickleSerializer its pickle (serializers.py:409-410).
Dumps(ser, obj) ==
    IF ser = "NoOpSerializer" THEN obj ELSE PyBytes(Pickle(obj.value))

\* serializer.loads(obj) (serializers.py:333-334, 412-417).
Loads(ser, obj) ==
    IF ser = "NoOpSerializer" THEN obj
    ELSE IF Unpickles(obj.value) THEN PyList(Unpickle(obj.value))
    ELSE [type |-> "UnpicklingError", value |-> <<>>]

----------------------------------------------------------------------------
\* read_int, write_int and FramedSerializer (serializers.py:117-164, 543-551)

\* struct.pack("!i", value) of a value >= 0: four bytes, most significant
\* first; a value of 2^31 or more does not fit and raises struct.error.
StructPack(value) ==
    IF value.hi >= 32768
    THEN [raised |-> "struct.error", data |-> <<>>]
    ELSE [raised |-> "none",
          data |-> BytesOf(<<value.hi \div 256, value.hi % 256,
                             value.lo \div 256, value.lo % 256>>)]

\* Variant: the four bytes read least significant first.
StructUnpackMut(data) ==
    LET hi == ByteAt(data, 3) * 256 + ByteAt(data, 2)
        lo == ByteAt(data, 1) * 256 + ByteAt(data, 0)
    IN  IF hi < 32768 THEN hi * Half + lo ELSE (hi - Half) * Half + lo

\* struct.unpack("!i", data)[0] of four bytes: a signed 32-bit integer.
StructUnpack(data) ==
    LET hi == ByteAt(data, 0) * 256 + ByteAt(data, 1)
        lo == ByteAt(data, 2) * 256 + ByteAt(data, 3)
    IN  IF hi < 32768 THEN hi * Half + lo ELSE (hi - Half) * Half + lo

\* read_int(stream) (serializers.py:543-547).
read_int(rest) ==
    LET r == StreamRead(rest, 4) IN
    IF r.data = <<>>
    THEN [raised |-> "EOFError", value |-> 0, rest |-> r.rest]
    ELSE IF PyLen(r.data) # Wide(4)
    THEN [raised |-> "struct.error", value |-> 0, rest |-> r.rest]
    ELSE [raised |-> "none", value |-> StructUnpack(r.data), rest |-> r.rest]

\* write_int(value, stream) (serializers.py:550-551).
write_int(value, out) ==
    LET packed == StructPack(value) IN
    IF packed.raised # "none"
    THEN [raised |-> packed.raised, stream |-> out]
    ELSE [raised |-> "none", stream |-> Concat(out, packed.data)]

\* FramedSerializer._write_with_length (serializers.py:143-153).
write_with_length(ser, obj, out) ==
    LET serialized == Dumps(ser, obj) IN
    IF serialized = PyNone
    THEN [raised |-> "ValueError", stream |-> out]
    ELSE IF WideLess(ShiftLeft31, PyLen(serialized.value))
    THEN [raised |-> "ValueError", stream |-> out]
    ELSE LET w == write_int(PyLen(serialized.value), out) IN
         IF w.raised # "none" THEN w
         ELSE [raised |-> "none", stream |-> Concat(w.stream, serialized.value)]

\* FramedSerializer._read_with_length (serializers.py:155-164).
read_with_length(ser, rest) ==
    LET length == read_int(rest) IN
    IF length.raised # "none"
    THEN [raised |-> length.raised, obj |-> PyNone, rest |-> length.rest]
    ELSE IF length.value = END_OF_DATA_SECTION
    THEN [raised |-> "EOFError", obj |-> PyNone, rest |-> length.rest]
    ELSE IF length.value = NULL
    THEN [raised |-> "none", obj |-> PyNone, rest |-> length.rest]
    ELSE LET r == StreamRead(length.rest, length.value) IN
         IF length.value >= 0 /\ WideLess(PyLen(r.data), Wide(length.value))
         THEN [raised |-> "EOFError", obj |-> PyNone, rest |-> r.rest]
         ELSE [raised |-> "none", obj |-> Loads(ser, PyBytes(r.data)),
               rest |-> r.rest]

----------------------------------------------------------------------------
\* Serializer runs: dump_stream writes the items of an iterator to a stream,
\* the stream (whole, or cut off at some byte) is handed to load_stream, and
\* load_stream yields items until it returns or raises.

\* The largest signed 32-bit integer.
Int32Max == 2147483647

SeqsUpTo(S, n) == UNION {[1..k -> S] : k \in 0..n}

\* Objects written through a FramedSerializer whose dumps is the identity:
\* None, byte strings of 0, 1 and 2 bytes, and of 2^31 - 1, 2^31 and 2^31 + 1.
FramedObjects ==
    {PyNone, PyBytes(<<>>), PyBytes(BytesOf(<<97>>)), PyBytes(BytesOf(<<97, 98>>)),
     PyBytes(<<Run(97, Int32Max)>>),
     PyBytes(<<Run(97, Int32Max), Run(98, 1)>>),
     PyBytes(<<Run(97, Int32Max), Run(98, 2)>>)}

\* NoOpSerializer() (serializers.py:331-337), a FramedSerializer.
NoOpSerializer ==
    [class |-> "NoOpSerializer", serializer |-> "NoOpSerializer",
     batchSize |-> 0, bestSize |-> 0]

\* serializer.dump_stream(iter(items), stream) is about to start.
DumpStart(ser, items) ==
    /\ serializer = ser
    /\ source = items
    /\ records = items
    /\ stream = <<>>
    /\ cut = -1
    /\ loaded = <<>>
    /\ ser_pc = "dump"
    /\ raised = "none"
    /\ batch = IF ser.class = "AutoBatchedSerializer" THEN 1 ELSE 0
    /\ emitted = <<>>

FramedInit ==
    \E items \in SeqsUpTo(FramedObjects, MaxFrames) : DumpStart(NoOpSerializer, items)

\* BatchedSerializer.UNLIMITED_BATCH_SIZE and UNKNOWN_BATCH_SIZE
\* (serializers.py:187-188).
UNLIMITED_BATCH_SIZE == -1
UNKNOWN_BATCH_SIZE == 0

\* BatchedSerializer(PickleSerializer(), batchSize) (serializers.py:190-192).
BatchedSerializer(batchSize) ==
    [class |-> "BatchedSerializer", serializer |-> "PickleSerializer",
     batchSize |-> batchSize, bestSize |-> 0]

\* AutoBatchedSerializer(PickleSerializer(), bestSize) (serializers.py:255-257).
AutoBatchedSerializer(bestSize) ==
    [class |-> "AutoBatchedSerializer", serializer |-> "PickleSerializer",
     batchSize |-> UNKNOWN_BATCH_SIZE, bestSize |-> bestSize]

\* Target sizes, in bytes, given to AutoBatchedSerializer.
BestSizes == {3, 8}

\* Serialized widths: a small record takes 2 bytes, a large one 20 times that.
SmallWidth == 2
LargeWidth == 20 * SmallWidth

\* The records of a data set, told apart by their position, from the
\* serialized width of each.
RecordsOf(widths) == [i \in DOMAIN widths |-> Record(i, widths[i] - 1)]

\* Data sets: a few records of mixed widths, and small records followed by
\* records 20 times larger.
RecordSeqs ==
    {RecordsOf(w) : w \in SeqsUpTo({SmallWidth, SmallWidth + 1}, MaxRecords)}
    \cup {RecordsOf([i \in 1..(small + large) |->
                       IF i <= small THEN SmallWidth ELSE LargeWidth]) :
             small \in 0..MaxSmall, large \in 0..MaxLarge}

BatchingSerializers ==
    {BatchedSerializer(n) : n \in {UNLIMITED_BATCH_SIZE} \cup 1..MaxBatchSize}
    \cup {AutoBatchedSerializer(best) : best \in BestSizes}

BatchedInit ==
    \E ser \in BatchingSerializers, items \in RecordSeqs : DumpStart(ser, items)

\* Variant: _batched without the final `if items: yield items`.
BatchedNextMut(items, batchSize) ==
    IF batchSize = UNLIMITED_BATCH_SIZE
    THEN [batch |-> items, rest |-> <<>>]
    ELSE IF Len(items) < batchSize
    THEN [batch |-> <<>>, rest |-> <<>>]
    ELSE [batch |-> SubSeq(items, 1, batchSize),
          rest |-> SubSeq(items, batchSize + 1, Len(items))]

\* BatchedSerializer._batched (serializers.py:194-212): the next batch it
\* yields from the items left, and the items left after it.
BatchedNext(items, batchSize) ==
    IF batchSize = UNLIMITED_BATCH_SIZE
    THEN [batch |-> items, rest |-> <<>>]
    ELSE IF Len(items) < batchSize
    THEN [batch |-> items, rest |-> <<>>]
    ELSE [batch |-> SubSeq(items, 1, batchSize),
          rest |-> SubSeq(items, batchSize + 1, Len(items))]

\* Whether _batched yields another batch: once for the unlimited size, else
\* while items are left.
BatchedHasNext ==
    IF serializer.batchSize = UNLIMITED_BATCH_SIZE
    THEN emitted = <<>> ELSE records # <<>>

\* Variant: the batch is halved without the `batch > 1` test.
AutoBatchNextMut(n, size, best) ==
    IF size < best THEN n * 2
    ELSE IF size > best * 10 THEN n \div 2
    ELSE n

\* AutoBatchedSerializer.dump_stream: the batch size after a batch of `size`
\* bytes was written (serializers.py:271-275).
AutoBatchNext(n, size, best) ==
    IF size < best THEN n * 2
    ELSE IF size > best * 10 /\ n > 1 THEN n \div 2
    ELSE n

\* Variant: islice takes one item more than asked for.
IsliceMut(items, n) == SubSeq(items, 1, IF n + 1 < Len(items) THEN n + 1 ELSE Len(items))

\* vs = list(itertools.islice(iterator, batch)) (serializers.py:262).
Islice(items, n) == SubSeq(items, 1, IF n < Len(items) THEN n ELSE Len(items))

\* The reattachable iterator takes no part in a serializer run.
IteratorUnused ==
    /\ IteratorInit
    /\ numUnits = 1
    /\ emptyAt = 0
    /\ resume_policy = "scripted"
    /\ initial_request.operation_id = "op-1"

\* FramedSerializer.dump_stream, one turn of its loop (serializers.py:132-134).
framed_dump_stream ==
    /\ ser_pc = "dump"
    /\ serializer.class = "NoOpSerializer"
    /\ records # <<>>
    /\ LET w == write_with_length(serializer.serializer, Head(records), stream) IN
       IF w.raised # "none"
       THEN /\ ser_pc' = "raised"
            /\ raised' = w.raised
            /\ UNCHANGED <<records, stream>>
       ELSE /\ stream' = w.stream
            /\ records' = Tail(records)
            /\ UNCHANGED <<ser_pc, raised>>
    /\ UNCHANGED <<iteratorVars, utilVars, serializer, source, cut, loaded, batch, emitted>>

\* BatchedSerializer.dump_stream (serializers.py:214-215): one batch of
\* _batched written by the wrapped serializer's dump_stream.
batched_dump_stream ==
    /\ ser_pc = "dump"
    /\ serializer.class = "BatchedSerializer"
    /\ BatchedHasNext
    /\ LET b == BatchedNext(records, serializer.batchSize)
           w == write_with_length(serializer.serializer, PyList(b.batch), stream)
       IN  IF w.raised # "none"
           THEN /\ ser_pc' = "raised"
                /\ raised' = w.raised
                /\ UNCHANGED <<records, stream, emitted>>
           ELSE /\ stream' = w.stream
                /\ records' = b.rest
                /\ emitted' = Append(emitted,
                                     [items |-> b.batch, batch |-> Len(b.batch),
                                      size |-> PyLen(Pickle(b.batch)).lo])
                /\ UNCHANGED <<ser_pc, raised>>
    /\ UNCHANGED <<iteratorVars, utilVars, serializer, source, cut, loaded, batch>>

\* AutoBatchedSerializer.dump_stream, one turn of its loop
\* (serializers.py:261-275).
auto_dump_stream ==
    /\ ser_pc = "dump"
    /\ serializer.class = "AutoBatchedSerializer"
    /\ Islice(records, batch) # <<>>
    /\ LET vs == Islice(records, batch)
           bytes == Dumps(serializer.serializer, PyList(vs))
           w == write_int(PyLen(bytes.value), stream)
           size == PyLen(bytes.value).lo
       IN  IF w.raised # "none"
           THEN /\ ser_pc' = "raised"
                /\ raised' = w.raised
                /\ UNCHANGED <<records, stream, emitted, batch>>
           ELSE /\ stream' = Concat(w.stream, bytes.value)
                /\ records' = SubSeq(records, Len(vs) + 1, Len(records))
                /\ emitted' = Append(emitted,
                                     [items |-> vs, batch |-> batch, size |-> size])
                /\ batch' = AutoBatchNext(batch, size, serializer.bestSize)
                /\ UNCHANGED <<ser_pc, raised>>
    /\ UNCHANGED <<iteratorVars, utilVars, serializer, source, cut, loaded>>

\* dump_stream has returned.
DumpReturned ==
    /\ ser_pc = "dump"
    /\ CASE serializer.class = "BatchedSerializer" -> ~BatchedHasNext
         [] serializer.class = "AutoBatchedSerializer" -> Islice(records, batch) = <<>>
         [] OTHER -> records = <<>>

\* The written stream reaches load_stream whole.
hand_over ==
    /\ DumpReturned
    /\ ser_pc' = "load"
    /\ UNCHANGED <<iteratorVars, utilVars, serializer, source, records, stream, cut, loaded,
                   raised, batch, emitted>>

\* Byte positions at which the writer's stream can be cut off: any position
\* of a stream of plain frames (streams of batches reach the reader whole).
CutPositions ==
    IF serializer.class = "NoOpSerializer" /\ PyLen(stream).hi = 0
    THEN 0..(PyLen(stream).lo - 1) ELSE {}

\* Only the first p bytes of the written stream reach load_stream.
truncate(p) ==
    /\ DumpReturned
    /\ stream' = Take(stream, p)
    /\ cut' = p
    /\ ser_pc' = "load"
    /\ UNCHANGED <<iteratorVars, utilVars, serializer, source, records, loaded, raised, batch,
                   emitted>>

\* FramedSerializer.load_stream, one turn of its loop (serializers.py:136-141).
framed_load_stream ==
    /\ ser_pc = "load"
    /\ serializer.class = "NoOpSerializer"
    /\ LET r == read_with_length(serializer.serializer, stream) IN
       /\ stream' = r.rest
       /\ IF r.raised = "EOFError"
          THEN /\ ser_pc' = "done"
               /\ UNCHANGED <<loaded, raised>>
          ELSE IF r.raised # "none"
          THEN /\ ser_pc' = "raised"
               /\ raised' = r.raised
               /\ UNCHANGED loaded
          ELSE /\ loaded' = Append(loaded, r.obj)
               /\ UNCHANGED <<ser_pc, raised>>
    /\ UNCHANGED <<iteratorVars, utilVars, serializer, source, records, cut, batch, emitted>>

\* BatchedSerializer.load_stream (serializers.py:217-221), one item of the
\* wrapped serializer's load_stream chained into the output.
batched_load_stream ==
    /\ ser_pc = "load"
    /\ serializer.class \in {"BatchedSerializer", "AutoBatchedSerializer"}
    /\ LET r == read_with_length(serializer.serializer, stream) IN
       /\ stream' = r.rest
       /\ IF r.raised = "EOFError"
          THEN /\ ser_pc' = "done"
               /\ UNCHANGED <<loaded, raised>>
          ELSE IF r.raised # "none" \/ r.obj.type # "list"
          THEN /\ ser_pc' = "raised"
               /\ raised' = IF r.raised # "none" THEN r.raised
                             ELSE IF r.obj = PyNone THEN "TypeError" ELSE r.obj.type
               /\ UNCHANGED loaded
          ELSE /\ loaded' = loaded \o r.obj.value
               /\ UNCHANGED <<ser_pc, raised>>
    /\ UNCHANGED <<iteratorVars, utilVars, serializer, source, records, cut, batch, emitted>>

----------------------------------------------------------------------------
\* PairDeserializer and CartesianDeserializer (serializers.py:281-328)

\* PairDeserializer(key_ser, val_ser) and CartesianDeserializer(key_ser,
\* val_ser), both sides batched pickle serializers (serializers.py:287-289,
\* 311-313).
PairDeserializer ==
    [class |-> "PairDeserializer", serializer |-> "PickleSerializer",
     batchSize |-> UNKNOWN_BATCH_SIZE, bestSize |-> 0]
CartesianDeserializer ==
    [class |-> "CartesianDeserializer", serializer |-> "PickleSerializer",
     batchSize |-> UNKNOWN_BATCH_SIZE, bestSize |-> 0]

RECURSIVE Sum(_)
Sum(lens) == IF lens = <<>> THEN 0 ELSE lens[1] + Sum(Tail(lens))

\* items cut into consecutive batches of the given lengths.
RECURSIVE SplitBy(_, _)
SplitBy(items, lens) ==
    IF lens = <<>> THEN <<>>
    ELSE <<SubSeq(items, 1, lens[1])>>
         \o SplitBy(SubSeq(items, lens[1] + 1, Len(items)), Tail(lens))

\* A batched side of the stream: items first + 1, first + 2, ... in batches
\* of the given lengths.
BatchesOf(first, lens) ==
    SplitBy([i \in 1..Sum(lens) |-> Record(first + i, 1)], lens)

\* Variant: itertools.product with the second batch varying slowest.
RECURSIVE ProductMut(_, _)
ProductMut(key_batch, val_batch) ==
    IF val_batch = <<>> THEN <<>>
    ELSE [i \in DOMAIN key_batch |-> <<key_batch[i], val_batch[1]>>]
         \o ProductMut(key_batch, Tail(val_batch))

\* itertools.product(key_batch, val_batch) (serializers.py:295): for every
\* element of the first batch in turn, its pairs with every element of the second.
RECURSIVE Product(_, _)
Product(key_batch, val_batch) ==
    IF key_batch = <<>> THEN <<>>
    ELSE [i \in DOMAIN val_batch |-> <<key_batch[1], val_batch[i]>>]
         \o Product(Tail(key_batch), val_batch)

\* Variant: zip that pairs value with key.
RECURSIVE ZipMut(_, _)
ZipMut(key_batch, val_batch) ==
    IF key_batch = <<>> \/ val_batch = <<>> THEN <<>>
    ELSE <<<<val_batch[1], key_batch[1]>>>> \o ZipMut(Tail(key_batch), Tail(val_batch))

\* zip(key_batch, val_batch) (serializers.py:322): pairs until one side ends.
RECURSIVE Zip(_, _)
Zip(key_batch, val_batch) ==
    IF key_batch = <<>> \/ val_batch = <<>> THEN <<>>
    ELSE <<<<key_batch[1], val_batch[1]>>>> \o Zip(Tail(key_batch), Tail(val_batch))

\* Variant: no length test.
LengthsDifferMut(key_batch, val_batch) == FALSE

\* `if len(key_batch) != len(val_batch)` (serializers.py:319).
LengthsDiffer(key_batch, val_batch) == Len(key_batch) # Len(val_batch)

\* The stream both sides are read from: key batch and value batch in turn,
\* each one frame, and last the one batch a side may have more than the other.
RECURSIVE Wire(_, _)
Wire(keys, vals) ==
    IF keys = <<>> /\ vals = <<>> THEN <<>>
    ELSE LET key_frame == IF keys = <<>> THEN <<>>
                          ELSE write_with_length("PickleSerializer",
                                                 PyList(keys[1]), <<>>).stream
             val_frame == IF vals = <<>> THEN <<>>
                          ELSE write_with_length("PickleSerializer",
                                                 PyList(vals[1]), <<>>).stream
         IN  Concat(Concat(key_frame, val_frame),
                    Wire(IF keys = <<>> THEN keys ELSE Tail(keys),
                         IF vals = <<>> THEN vals ELSE Tail(vals)))

\* Lengths of the batches of one side.
BatchLens == SeqsUpTo(0..MaxBatchLen, MaxBatches)

\* load_stream(stream) of a pair or cartesian deserializer is about to start.
PairedInit ==
    \E ser \in {PairDeserializer, CartesianDeserializer},
       key_lens \in BatchLens, val_lens \in BatchLens :
       /\ Len(key_lens) - Len(val_lens) \in {-1, 0, 1}
       /\ serializer = ser
       /\ source = [keys |-> BatchesOf(0, key_lens), vals |-> BatchesOf(100, val_lens)]
       /\ records = <<>>
       /\ stream = Wire(BatchesOf(0, key_lens), BatchesOf(100, val_lens))
       /\ cut = -1
       /\ loaded = <<>>
       /\ ser_pc = "load"
       /\ raised = "none"
       /\ batch = 0
       /\ emitted = <<>>

\* One step of zip(key_batch_stream, val_batch_stream) over the two batch
\* generators reading the same stream (serializers.py:292-294, 316-318): the
\* key batch is read first, the value batch only if there was a key batch.
ZipBatchStreams ==
    LET key == read_with_length(serializer.serializer, stream) IN
    IF key.raised # "none"
    THEN [raised |-> key.raised, rest |-> key.rest, key_batch |-> <<>>,
          val_batch |-> <<>>]
    ELSE LET val == read_with_length(serializer.serializer, key.rest) IN
         IF val.raised # "none"
         THEN [raised |-> val.raised, rest |-> val.rest, key_batch |-> <<>>,
               val_batch |-> <<>>]
         ELSE [raised |-> "none", rest |-> val.rest, key_batch |-> key.obj.value,
               val_batch |-> val.obj.value]

\* What load_stream does with the outcome z of a zip step and the items
\* the pair of batches yields.
PairedStep(z, error, items) ==
    /\ stream' = z.rest
    /\ IF z.raised = "EOFError"
       THEN /\ ser_pc' = "done"
            /\ UNCHANGED <<loaded, raised, emitted>>
       ELSE IF z.raised # "none" \/ error # "none"
       THEN /\ ser_pc' = "raised"
            /\ raised' = IF z.raised # "none" THEN z.raised ELSE error
            /\ UNCHANGED <<loaded, emitted>>
       ELSE /\ loaded' = loaded \o items
            /\ emitted' = Append(emitted, [items |-> items, batch |-> Len(items),
                                           size |-> 0])
            /\ UNCHANGED <<ser_pc, raised>>
    /\ UNCHANGED <<iteratorVars, utilVars, serializer, source, records, cut, batch>>

\* PairDeserializer.load_stream (serializers.py:315-325), one pair of batches.
pair_load_stream ==
    /\ ser_pc = "load"
    /\ serializer.class = "PairDeserializer"
    /\ LET z == ZipBatchStreams IN
       PairedStep(z,
                  IF LengthsDiffer(z.key_batch, z.val_batch)
                  THEN "ValueError" ELSE "none",
                  Zip(z.key_batch, z.val_batch))

\* CartesianDeserializer.load_stream (serializers.py:291-298), one pair of
\* batches.
cartesian_load_stream ==
    /\ ser_pc = "load"
    /\ serializer.class = "CartesianDeserializer"
    /\ LET z == ZipBatchStreams IN
       PairedStep(z, "none", Product(z.key_batch, z.val_batch))

SerInit ==
    IteratorUnused /\ UtilitiesOff /\ (FramedInit \/ BatchedInit \/ PairedInit)

SerNext ==
    \/ framed_dump_stream
    \/ batched_dump_stream
    \/ auto_dump_stream
    \/ hand_over
    \/ \E p \in CutPositions : truncate(p)
    \/ framed_load_stream
    \/ batched_load_stream
    \/ pair_load_stream
    \/ cartesian_load_stream

SpecSerializers == SerInit /\ [][SerNext]_vars

----------------------------------------------------------------------------
\* Vocabulary of the properties

\* The stub methods called so far, in order.
RpcLog == [i \in DOMAIN requests |-> requests[i].rpc]

\* The release notifications dispatched so far, in order.
ReleasesDispatched == SelectSeq(requests, LAMBDA r : r.rpc = "ReleaseExecute")

\* The reattach requests sent so far.
ReattachIndexes == {i \in DOMAIN requests : requests[i].rpc = "ReattachExecute"}

\* The release notification the unit at position u calls for.
ExpectedRelease(u) ==
    IF Unit(u).response_complete
    THEN [release |-> "release_all", response_id |-> None]
    ELSE [release |-> "release_until", response_id |-> ResponseId(u)]

\* next() has returned the server's units in order, none twice, none skipped.
InOrderOnce == returned = [i \in 1..Len(returned) |-> i]

\* A unit carrying the final marker has been returned by next().
Terminal == result_complete /\ pc = "idle"

----------------------------------------------------------------------------
\* Properties

\* C1: over a transport whose reattach stream continues where the broken
\* stream stopped, next() returns the units in response_id order, each exactly
\* once, wherever the retryable error occurs, and the final-marker unit is the
\* last one returned (ids 1,2, then the error, then 3,4 give 1,2,3,4).
C1_ResumeInOrder ==
    resume_policy = "scripted" =>
        /\ InOrderOnce
        /\ Terminal => Len(returned) = numUnits
        /\ \A i \in DOMAIN returned :
              Unit(returned[i]).response_complete => i = Len(returned)

\* C1 witness: four units; the initial stream gave 1 and 2 and then raised a
\* retryable error, the retry reattached once and the third call returned 3.
C1_Witness ==
    /\ resume_policy = "scripted"
    /\ numUnits = 4
    /\ pc = "idle"
    /\ outcome = "unit"
    /\ returned = <<1, 2, 3>>
    /\ retry_count = 1
    /\ emptyInCall = 0
    /\ faults = 1
    /\ RpcLog = <<"ExecutePlan", "ReleaseExecute", "ReleaseExecute",
                  "ReattachExecute", "ReleaseExecute">>

\* C2: between next() calls, exactly one release has been dispatched per
\* returned unit, in order: "release until X" with X the unit's response_id
\* (whatever its value, the empty string included) for a unit without the final
\* marker, "release all" for the unit with it; nothing else dispatches a release.
C2_OneReleasePerUnit ==
    pc = "idle" =>
        /\ Len(ReleasesDispatched) = Len(returned)
        /\ \A i \in DOMAIN returned :
              [release |-> ReleasesDispatched[i].release,
               response_id |-> ReleasesDispatched[i].response_id]
                  = ExpectedRelease(returned[i])

\* C3: against a server that on reattach resends every unit after the last one
\* whose release it has processed, next() returns no response_id twice and skips
\* none, also while releases are still in flight.
C3_NoDuplicateNoSkip ==
    resume_policy = "released" => InOrderOnce

\* C4: every reattach request carries the reattach cursor: the response_id of
\* the last unit returned by next(), or none if no unit has been returned.
C4_ReattachCarriesCursor ==
    [][(Len(requests') = Len(requests) + 1
          /\ requests'[Len(requests')].rpc = "ReattachExecute")
       => requests'[Len(requests')].last_response_id = last_returned_response_id]_vars

\* C5: every request issued for the iterator carries the same non-empty
\* operation_id: the caller's if the request had one, else the generated one.
C5_SameOperationId ==
    /\ operation_id # ""
    /\ \A i \in DOMAIN requests : requests[i].operation_id = operation_id

\* C6: a next() call during which a stream ended without the final marker
\* having been returned does not end in exhaustion: it has sent a reattach
\* request for every stream that ended empty and ends by returning a unit
\* (or with a transport error).
C6_GracefulEndReattaches ==
    /\ (pc = "idle" /\ emptyInCall > 0) =>
          outcome \in {"unit", "error_retryable", "error_fatal"}
    /\ (pc = "idle" /\ outcome = "unit") =>
          (reattachInCall >= emptyInCall /\ returned # <<>>)
    /\ pc \in {"graceful", "gpull"} => ~result_complete

\* C6 witness: the initial stream and the first reattach stream were both
\* empty, the second reattach stream held the single final-marker unit, and
\* the first next() returned it.
C6_Witness ==
    /\ numUnits = 1
    /\ pc = "idle"
    /\ outcome = "unit"
    /\ emptyInCall = 2
    /\ reattachInCall = 2
    /\ retry_count = 0
    /\ returned = <<1>>
    /\ result_complete

\* C7: once the final-marker unit has been returned the iterator is terminal:
\* every later next() raises the exhausted-iterator signal and no request of
\* any kind is issued any more.
C7_TerminalAfterFinal ==
    [][Terminal =>
          /\ Terminal'
          /\ requests' = requests
          /\ returned' = returned
          /\ iterator' = iterator
          /\ send => outcome' = "StopIteration"]_vars

\* C7 witness: next() was called again after the final-marker unit and raised
\* the exhausted-iterator signal.
C7_Witness ==
    /\ Terminal
    /\ outcome = "StopIteration"
    /\ Len(returned) = numUnits

\* C8: whenever a "release until X" is dispatched or on its way to the server,
\* the reattach cursor is at X or at a later response_id.
C8_CursorCoversReleases ==
    \A r \in inflight :
        r.release = "release_until" =>
            Position(r.response_id) <= Position(last_returned_response_id)

\* C9: ExecutePlan is called once, at construction; the first pull of a
\* has-next check uses the stream at hand, and every stream opened later was
\* opened by a ReattachExecute request.
C9_ExecuteOnce ==
    /\ \A i \in DOMAIN requests : (requests[i].rpc = "ExecutePlan") <=> (i = 1)
    /\ iterator.id = 1 + Cardinality(ReattachIndexes)
    /\ (pc = "pull" /\ retry_count = 0) => reattachInCall = 0

\* C9 witness: one call re-opened the stream twice, once after a retryable
\* error and once after a graceful end without the final marker.
C9_Witness ==
    /\ pc = "idle"
    /\ outcome = "unit"
    /\ retry_count = 1
    /\ emptyInCall = 1
    /\ reattachInCall = 2
    /\ iterator.id = 3

\* C10: a non-retryable transport error raised by a pull, from the current
\* stream or from a reattach stream, ends the next() call with that error and
\* no request is sent in response to it.
C10_FatalPropagates ==
    [][((has_next_pull \/ has_next_graceful_pull)
          /\ current = 0 /\ iterator'.status = "fatal")
       => /\ pc' = "idle"
          /\ outcome' = "error_fatal"
          /\ requests' = requests
          /\ returned' = returned]_vars

\* C10 witness: a reattach stream raised a non-retryable error after a unit
\* had been returned, and the call ended with it.
C10_Witness ==
    /\ pc = "idle"
    /\ outcome = "error_fatal"
    /\ iterator.status = "fatal"
    /\ reattachInCall >= 1
    /\ returned # <<>>

\* C11: a release notification that fails, even after its own retries, or that
\* never completes neither raises from nor delays a next() call: next() returns
\* the units it returns when every release succeeds at once (the server's
\* units in order, each once), ends no call with an error the transport did not
\* raise, and signals exhaustion only after the last unit.
C11_ReleaseFailureUnobserved ==
    emptyAt = 0 =>
        /\ InOrderOnce
        /\ outcome = "StopIteration" => Len(returned) = numUnits
        /\ outcome \in {"error_retryable", "error_fatal"} => faults > 0

\* C12: close() can be called any number of times, in any state of the
\* iterator and again from the destructor: every call returns without raising,
\* dispatches no release, reattach or execute request, and leaves the reattach
\* cursor and the completed flag as they were.
C12_CloseIsInert ==
    [][closed'.calls = closed.calls + 1
       => /\ closed'.result = "returned"
          /\ requests' = requests
          /\ inflight' = inflight
          /\ last_returned_response_id' = last_returned_response_id
          /\ result_complete' = result_complete]_vars

\* C12 witness: after the final unit was returned, with its release still in
\* flight, close() was called and then the destructor closed once more.
C12_Witness ==
    /\ Terminal
    /\ inflight # {}
    /\ closed = [calls |-> MaxCloses + 1, by |-> "__del__", result |-> "returned"]

\* The bytes the frames of objs take: 4 + len(b) for each b.
RECURSIVE FramedLen(_)
FramedLen(objs) ==
    IF objs = <<>> THEN Wide(0)
    ELSE WideAdd(WideAdd(Wide(4), PyLen(objs[1].value)), FramedLen(Tail(objs)))

\* The items of the source that dump_stream has written.
Written == SubSeq(source, 1, Len(source) - Len(records))

\* The items of the source that load_stream has not yielded.
NotLoaded == SubSeq(source, Len(loaded) + 1, Len(source))

\* C13: for byte strings b of 0 to 2^31 - 1 bytes and the identity payload
\* serializer, reading the frames written for them returns exactly each b, in
\* order, and each read consumes exactly 4 + len(b) bytes of the stream.
C13_FrameRoundTrip ==
    (serializer.class = "NoOpSerializer" /\ cut = -1 /\ ser_pc \in {"load", "done"})
    => /\ Len(loaded) <= Len(source)
       /\ loaded = SubSeq(source, 1, Len(loaded))
       /\ ser_pc = "load" => PyLen(stream) = FramedLen(NotLoaded)
       /\ ser_pc = "done" => loaded = source

\* C13 witness: the empty byte string and one of 2^31 - 1 bytes were framed
\* and read back.
C13_Witness ==
    /\ serializer.class = "NoOpSerializer"
    /\ cut = -1
    /\ ser_pc = "done"
    /\ source = <<PyBytes(<<>>), PyBytes(<<Run(97, Int32Max)>>)>>
    /\ loaded = source

\* The payloads the writer has to reject: None, and 2^31 bytes or more.
Rejected(obj) == obj = PyNone \/ ~WideLess(PyLen(obj.value), ShiftLeft31)

\* C14: _write_with_length fails with ValueError, having written nothing, when
\* the serialized payload is None or its length is 2^31 or more, and writes the
\* frame of every shorter payload: the rejection threshold is exactly 2^31.
C14_RejectsFrom2G ==
    (serializer.class = "NoOpSerializer" /\ ser_pc \in {"dump", "raised"})
    => /\ \A i \in DOMAIN Written : ~Rejected(Written[i])
       /\ PyLen(stream) = FramedLen(Written)
       /\ ser_pc = "raised" => raised = "ValueError" /\ Rejected(Head(records))

\* The number of frames of objs that lie wholly within the first p bytes.
RECURSIVE CompleteFrames(_, _)
CompleteFrames(objs, p) ==
    IF objs = <<>> \/ p < 4 + PyLen(objs[1].value).lo THEN 0
    ELSE 1 + CompleteFrames(Tail(objs), p - (4 + PyLen(objs[1].value).lo))

\* C20: for a framed stream cut off at any byte position, inside a payload or
\* inside a 4-byte length prefix, load_stream yields exactly the records of the
\* complete frames, in order, and then ends normally: no error, no partial record.
C20_TruncatedEndsNormally ==
    (serializer.class = "NoOpSerializer" /\ cut >= 0)
    => /\ ser_pc # "raised"
       /\ loaded = SubSeq(source, 1, Len(loaded))
       /\ ser_pc = "done" => Len(loaded) = CompleteFrames(source, cut)

\* C15: for every finite record sequence R and every batch policy (unlimited,
\* fixed N >= 1, adaptive), load_stream(dump_stream(R)) yields exactly the
\* records of R in their order, and neither side raises.
C15_BatchRoundTrip ==
    (serializer.class \in {"BatchedSerializer", "AutoBatchedSerializer"} /\ cut = -1)
    => /\ ser_pc # "raised"
       /\ Len(loaded) <= Len(source)
       /\ loaded = SubSeq(source, 1, Len(loaded))
       /\ ser_pc = "done" => loaded = source

\* C15 witness: three records went through batches of two, the last batch
\* holding the one record left over, and came back in order.
C15_Witness ==
    /\ serializer = BatchedSerializer(2)
    /\ Len(source) = 3
    /\ Len(emitted) = 2
    /\ emitted[2].batch = 1
    /\ ser_pc = "done"
    /\ loaded = source

\* The batch written as number i holds only records 20 times larger, after
\* small records had been written.
AfterSwap(i) ==
    /\ emitted[1].items # <<>>
    /\ emitted[1].items[1].n = SmallWidth - 1
    /\ \A k \in DOMAIN emitted[i].items : emitted[i].items[k].n = LargeWidth - 1

\* The adaptive writer's batch sizes never shrink after a batch smaller than
\* the target size, and are never below 1.
AdaptiveGrowth ==
    /\ batch >= 1
    /\ \A i \in DOMAIN emitted :
          /\ emitted[i].batch >= 1
          /\ (i + 1 \in DOMAIN emitted /\ emitted[i].size < serializer.bestSize)
                => emitted[i + 1].batch >= emitted[i].batch

\* C19 as stated: with a serializer whose output size is proportional to the
\* number of records, the batch sizes chosen by the adaptive writer are
\* non-decreasing while each written batch is smaller than the target size,
\* strictly decrease from one batch to the next once the records are 20 times
\* larger, and are never below 1.
C19_ShrinksAfterSwap ==
    serializer.class = "AutoBatchedSerializer"
    => /\ AdaptiveGrowth
       /\ \A i \in DOMAIN emitted :
             (i + 1 \in DOMAIN emitted /\ AfterSwap(i))
                => emitted[i + 1].batch < emitted[i].batch

\* C19 amended: the batch sizes are non-decreasing while each written batch is
\* smaller than the target size, strictly decrease from one batch to the next
\* exactly when the written batch was larger than 10 times the target size
\* and held more than one record's worth (batch size above 1), and are never
\* below 1.
C19_ShrinksAfterOversize ==
    serializer.class = "AutoBatchedSerializer"
    => /\ AdaptiveGrowth
       /\ \A i \in DOMAIN emitted :
             i + 1 \in DOMAIN emitted
                => (emitted[i + 1].batch < emitted[i].batch
                      <=> (emitted[i].size > 10 * serializer.bestSize
                             /\ emitted[i].batch > 1))

\* C19 witness: with a target of 8 bytes the batch size grew 1, 2, 4 on seven
\* small records; the records then became 20 times larger, a batch of 4 of
\* them was followed by a batch size of 2, and 2 it stayed after the next batch.
C19_Witness ==
    /\ serializer = AutoBatchedSerializer(8)
    /\ ser_pc = "done"
    /\ [i \in DOMAIN emitted |-> emitted[i].batch] = <<1, 2, 4, 4, 2>>
    /\ AfterSwap(4)
    /\ AfterSwap(5)
    /\ batch = 2
    /\ loaded = source

\* The items of a batched side, batch after batch.
RECURSIVE Flatten(_)
Flatten(batches) ==
    IF batches = <<>> THEN <<>> ELSE batches[1] \o Flatten(Tail(batches))

\* The batch positions both sides have, and those where the lengths differ.
BatchPositions ==
    1..(IF Len(source.keys) < Len(source.vals)
        THEN Len(source.keys) ELSE Len(source.vals))
MismatchPositions ==
    {j \in BatchPositions : Len(source.keys[j]) # Len(source.vals[j])}

\* The pairs (A[i], B[i]) of the first n batches of the two sides.
PairsOfBatches(n) ==
    LET A == Flatten(SubSeq(source.keys, 1, n))
        B == Flatten(SubSeq(source.vals, 1, n))
    IN  [i \in 1..(IF Len(A) < Len(B) THEN Len(A) ELSE Len(B)) |-> <<A[i], B[i]>>]

\* C16: PairDeserializer raises ValueError whenever at some batch position the
\* key batch and the value batch differ in length: load_stream does not end
\* normally, and it yields the pairs of the batch positions before the first
\* such position and no pair of that position.
C16_MismatchRaises ==
    (serializer.class = "PairDeserializer" /\ MismatchPositions # {})
    => LET first == CHOOSE j \in MismatchPositions :
                       \A k \in MismatchPositions : j <= k
       IN  /\ ser_pc # "done"
           /\ Len(loaded) <= Len(PairsOfBatches(first - 1))
           /\ ser_pc = "raised"
                 => raised = "ValueError" /\ loaded = PairsOfBatches(first - 1)

\* C16 witness: the first batches matched and were paired, the second
\* differed in length and load_stream raised.
C16_Witness ==
    /\ serializer.class = "PairDeserializer"
    /\ MismatchPositions = {2}
    /\ ser_pc = "raised"
    /\ raised = "ValueError"
    /\ Len(loaded) = 2

\* C17: for two batched streams A and B with the same sequence of batch
\* lengths, PairDeserializer.load_stream raises nothing and yields exactly the
\* pairs (A[i], B[i]) in order.
C17_PairsInOrder ==
    (/\ serializer.class = "PairDeserializer"
     /\ [j \in DOMAIN source.keys |-> Len(source.keys[j])]
           = [j \in DOMAIN source.vals |-> Len(source.vals[j])])
    => LET all == PairsOfBatches(Len(source.keys)) IN
       /\ ser_pc # "raised"
       /\ Len(loaded) <= Len(all)
       /\ loaded = SubSeq(all, 1, Len(loaded))
       /\ ser_pc = "done" => loaded = all

\* C17 witness: two batches of two items on each side gave four pairs.
C17_Witness ==
    /\ serializer.class = "PairDeserializer"
    /\ Len(source.keys) = 2
    /\ ser_pc = "done"
    /\ Len(emitted) = 2
    /\ loaded = <<<<Record(1, 1), Record(101, 1)>>, <<Record(2, 1), Record(102, 1)>>,
                  <<Record(3, 1), Record(103, 1)>>, <<Record(4, 1), Record(104, 1)>>>>

\* The cross product of two batches in row-major order: the element of the
\* first batch varies slowest.
RowMajor(a, b) ==
    [i \in 1..(Len(a) * Len(b)) |->
        <<a[((i - 1) \div Len(b)) + 1], b[((i - 1) % Len(b)) + 1]>>]

\* The cross products of the first n batch positions, one after the other.
RECURSIVE CrossProducts(_)
CrossProducts(n) ==
    IF n = 0 THEN <<>>
    ELSE CrossProducts(n - 1) \o RowMajor(source.keys[n], source.vals[n])

\* C18: CartesianDeserializer pairs the two batch streams in lockstep: after n
\* pairs of batches it has yielded the row-major cross products (m * n pairs
\* for batches of m and n items) of the batch positions 1..n, one after the
\* other, and it ends when every position both sides have is done.
C18_CartesianRowMajor ==
    serializer.class = "CartesianDeserializer"
    => /\ ser_pc # "raised"
       /\ Len(emitted) \in BatchPositions \cup {0}
       /\ loaded = CrossProducts(Len(emitted))
       /\ ser_pc = "done" => \A j \in BatchPositions : j <= Len(emitted)

\* C18 witness: batches of 2 and 1 keys against batches of 2 and 2 values
\* gave 4 and then 2 pairs.
C18_Witness ==
    /\ serializer.class = "CartesianDeserializer"
    /\ ser_pc = "done"
    /\ Len(source.keys) = 2
    /\ Len(source.vals) = 2
    /\ [j \in DOMAIN emitted |-> emitted[j].batch] = <<4, 2>>
    /\ loaded[2] = <<Record(1, 1), Record(102, 1)>>
    /\ loaded[3] = <<Record(2, 1), Record(101, 1)>>

\* C27: next() raises the exhausted-iterator signal only if a unit carrying the
\* final marker has been returned by this iterator; every other call, also one
\* in which the retry policy gave up, ends with a unit or with an error.
C27_ExhaustionOnlyAfterFinal ==
    /\ outcome = "StopIteration"
          => /\ result_complete
             /\ \E i \in DOMAIN returned : Unit(returned[i]).response_complete
    /\ (pc = "idle" /\ ~result_complete)
          => outcome \in {"none", "unit", "error_retryable", "error_fatal"}

\* C27 witness: the transport injected every fault it had, next() returned all
\* the units, and the call after the final-marker unit raised the
\* exhausted-iterator signal.
C27_Witness ==
    /\ pc = "idle"
    /\ outcome = "StopIteration"
    /\ faults = MaxFaults
    /\ numUnits >= 2
    /\ Len(returned) = numUnits
    /\ Unit(returned[Len(returned)]).response_complete

\* The serialized size of a batch of records: each record's content and the
\* byte in front of it.
RECURSIVE SerializedSize(_)
SerializedSize(items) ==
    IF items = <<>> THEN 0 ELSE items[1].n + 1 + SerializedSize(Tail(items))

\* The batch size after a batch of size bytes written with batch size n.
Adapted(n, size) ==
    CASE size < serializer.bestSize -> 2 * n
      [] size > 10 * serializer.bestSize /\ n > 1 -> n \div 2
      [] OTHER -> n

\* C24: AutoBatchedSerializer.dump_stream starts with batch size 1 and after
\* each written batch of s bytes doubles it if s < bestSize, halves it if
\* s > 10 * bestSize and it is above 1, and else leaves it; a written batch
\* holds exactly the batch size of records, a last one possibly fewer, and the
\* new batch size is used from the next batch on.
C24_AdaptationRule ==
    (serializer.class = "AutoBatchedSerializer" /\ ser_pc = "dump")
    => /\ emitted = <<>> => batch = 1
       /\ Flatten([i \in DOMAIN emitted |-> emitted[i].items]) \o records = source
       /\ \A i \in DOMAIN emitted :
             LET e == emitted[i] IN
             /\ e.size = SerializedSize(e.items)
             /\ e.batch = IF i = 1 THEN 1
                          ELSE Adapted(emitted[i - 1].batch, emitted[i - 1].size)
             /\ Len(e.items) = e.batch
                   \/ (Len(e.items) \in 1..(e.batch - 1) /\ i = Len(emitted)
                         /\ records = <<>>)
             /\ i = Len(emitted) => batch = Adapted(e.batch, e.size)

\* C24 witness: with a target of 8 bytes, small records and then records 20
\* times larger: the writer doubled twice, kept 4, halved after a batch of 4
\* large records and wrote a last batch of one record with batch size 2.
C24_Witness ==
    /\ serializer = AutoBatchedSerializer(8)
    /\ ser_pc = "dump"
    /\ records = <<>>
    /\ [i \in DOMAIN emitted |-> <<emitted[i].batch, Len(emitted[i].items)>>]
          = <<<<1, 1>>, <<2, 2>>, <<4, 4>>, <<4, 4>>, <<2, 1>>>>
    /\ emitted[4].size > 10 * 8

\* C25: BatchedSerializer with a fixed batch size N >= 1 groups the records
\* into batches of exactly N, except a last batch of 1..N-1 records when the
\* count is no multiple of N; it writes no empty batch, and no batch at all for
\* an empty input.
C25_FixedBatches ==
    (serializer.class = "BatchedSerializer" /\ serializer.batchSize >= 1)
    => /\ Len(emitted) <= (Len(source) + serializer.batchSize - 1)
                             \div serializer.batchSize
       /\ \A i \in DOMAIN emitted :
             /\ emitted[i].items
                   = SubSeq(source, (i - 1) * serializer.batchSize + 1,
                            IF i * serializer.batchSize < Len(source)
                            THEN i * serializer.batchSize ELSE Len(source))
             /\ emitted[i].items # <<>>
       /\ ser_pc \in {"load", "done"}
             => Len(emitted) = (Len(source) + serializer.batchSize - 1)
                                  \div serializer.batchSize

\* C25 witness: five records in batches of two: 2, 2 and a last batch of 1.
C25_Witness ==
    /\ serializer = BatchedSerializer(2)
    /\ Len(source) = 5
    /\ ser_pc = "load"
    /\ [i \in DOMAIN emitted |-> Len(emitted[i].items)] = <<2, 2, 1>>

\* C28: PairDeserializer.load_stream never ends normally after records of one
\* side were left without a counterpart: if the two sides have different
\* numbers of batches it raises.
C28_SurplusBatchRaises ==
    (serializer.class = "PairDeserializer"
       /\ Len(source.keys) # Len(source.vals))
    => ser_pc # "done"

----------------------------------------------------------------------------
\* Framed streams written by the peer: frames and the special lengths

\* The other values of SpecialLengths (serializers.py:78-80).
PYTHON_EXCEPTION_THROWN == -2
TIMING_DATA == -3
END_OF_STREAM == -4

\* The most elements a stream written by the peer holds.
MaxElements == 4

\* struct.pack("!i", value) of a value -2^31 <= value < 0: the four bytes of
\* its two's complement, most significant first.
StructPackNegative(value) ==
    LET hi == Half - 1 - ((-value - 1) \div Half)
        lo == Half - 1 - ((-value - 1) % Half)
    IN  BytesOf(<<hi \div 256, hi % 256, lo \div 256, lo % 256>>)

\* What the peer writes as one element of a stream: write_int(length) and the
\* payload, which is empty after a special length.
Element(length, payload) == [length |-> length, payload |-> payload]

WireElements ==
    {Element(PyLen(bs).lo, bs) : bs \in {<<>>, BytesOf(<<97>>), BytesOf(<<97, 98>>)}}
    \cup {Element(length, <<>>) :
            length \in {END_OF_DATA_SECTION, PYTHON_EXCEPTION_THROWN, TIMING_DATA,
                        END_OF_STREAM, NULL}}

\* The bytes of a sequence of elements.
RECURSIVE WireBytes(_)
WireBytes(elements) ==
    IF elements = <<>> THEN <<>>
    ELSE LET e == elements[1]
             prefix == IF e.length < 0 THEN StructPackNegative(e.length)
                       ELSE StructPack(Wide(e.length)).data
         IN  Concat(Concat(prefix, e.payload), WireBytes(Tail(elements)))

\* NoOpSerializer().load_stream(stream) is about to start on a stream the peer
\* wrote.
WireInit ==
    \E elements \in SeqsUpTo(WireElements, MaxElements) :
        /\ serializer = NoOpSerializer
        /\ source = elements
        /\ records = <<>>
        /\ stream = WireBytes(elements)
        /\ cut = -1
        /\ loaded = <<>>
        /\ ser_pc = "load"
        /\ raised = "none"
        /\ batch = 0
        /\ emitted = <<>>

WireNext == framed_load_stream

PeerStreamInit == IteratorUnused /\ UtilitiesOff /\ WireInit

SpecWire == PeerStreamInit /\ [][WireNext]_vars

\* The elements from number i on.
ElementsFrom(i) == SubSeq(source, i, Len(source))

\* The object an element stands for: the payload of a frame, None for NULL.
ObjectOf(e) == IF e.length = NULL THEN PyNone ELSE PyBytes(e.payload)

\* The first element that is neither a frame nor NULL; Len(source) + 1 if
\* there is none.
FirstOtherSpecial ==
    LET others == {i \in DOMAIN source :
                      source[i].length < 0 /\ source[i].length # NULL}
    IN  IF others = {} THEN Len(source) + 1
        ELSE CHOOSE i \in others : \A j \in others : i <= j

\* C26: in FramedSerializer.load_stream a length prefix equal to the
\* end-of-stream sentinel ends the iteration normally without reading any
\* further byte, and a prefix equal to the null sentinel yields a null record,
\* consumes no payload byte, and the iteration goes on with the next prefix.
C26_SentinelPrefixes ==
    LET e == FirstOtherSpecial IN
    /\ (ser_pc = "load" /\ Len(loaded) < e)
          => /\ loaded = [i \in 1..Len(loaded) |-> ObjectOf(source[i])]
             /\ stream = WireBytes(ElementsFrom(Len(loaded) + 1))
    /\ (e <= Len(source) /\ source[e].length = END_OF_DATA_SECTION
          /\ Len(loaded) = e - 1 /\ ser_pc # "load")
          => /\ ser_pc = "done"
             /\ stream = WireBytes(ElementsFrom(e + 1))
    /\ (e <= Len(source) /\ source[e].length = END_OF_DATA_SECTION)
          => Len(loaded) < e

\* C26 witness: a frame, the null sentinel, the end-of-stream sentinel and
\* one more frame: the reader yielded the frame's payload and None and ended
\* with the five bytes of the last frame unread.
C26_Witness ==
    /\ source = <<Element(1, BytesOf(<<97>>)), Element(NULL, <<>>),
                  Element(END_OF_DATA_SECTION, <<>>), Element(1, BytesOf(<<97>>))>>
    /\ ser_pc = "done"
    /\ loaded = <<PyBytes(BytesOf(<<97>>)), PyNone>>
    /\ PyLen(stream) = Wide(5)

\* C29: _read_with_length never uses a negative length prefix as the length
\* of a payload: after every special length the reader has ended or yielded a
\* null record, and it has read no byte of the stream as payload of it, so the
\* unread stream starts at an element and every record yielded is None or the
\* payload of a frame.
C29_NegativeNeverPayload ==
    /\ ser_pc # "raised"
    /\ \E k \in 0..Len(source) : stream = WireBytes(ElementsFrom(k + 1))
    /\ \A i \in DOMAIN loaded :
          \/ loaded[i] = PyNone
          \/ \E j \in DOMAIN source :
                source[j].length >= 0 /\ loaded[i] = PyBytes(source[j].payload)

----------------------------------------------------------------------------
\* The progress bar of the shell (connect/shell/progress.py)

\* The most calls made on one Progress object, and the largest tick counter.
MaxCalls == 3
MaxTicks == 2

\* The default min_width, which is also self._width:
\* max(min(min_width, x), min_width) (progress.py:34, 48).
Width == 80

\* len(str(n)) of an integer 0 <= n < 1000.
Digits(n) == IF n < 10 THEN 1 ELSE IF n < 100 THEN 2 ELSE 3

\* Variant: output() and finish() print whatever self._enabled is.
EnabledMut(p) == TRUE

\* `if self._enabled:` of finish() and output() (progress.py:69, 75).
Enabled(p) == p.enabled

\* Progress(output=buffer, enabled=enabled) (progress.py:34-54) with the
\* global switch progress_bar_enabled() being on or off.
ProgressNew(enabled, switch) ==
    [enabled |-> enabled \/ switch, ticks |-> 0, tick |-> 0, bytes_read |-> 0,
     max_printed |-> 0, out |-> <<>>, calls |-> <<>>, switch |-> switch,
     pc |-> IF enabled THEN "enabled" ELSE "disabled"]

\* Progress.output (progress.py:73-83): the line printed holds the bar of val
\* characters, the percentage with two decimals, the seconds elapsed and the
\* bytes scanned ("0.0 B", "999.0 B").
Output(p, elapsed) ==
    IF ~Enabled(p) THEN p
    ELSE LET val == (p.tick * Width) \div p.ticks
             percent == (p.tick * 100) \div p.ticks
             scanned == Digits(p.bytes_read) + 4
             len == 2 + (IF val > Width THEN val ELSE Width) + 2
                      + Digits(percent) + 3 + 12 + Digits(elapsed) + 11
                      + scanned + 1
         IN  [p EXCEPT !.max_printed = IF len > @ THEN len ELSE @,
                       !.out = Append(@, [text |-> "bar", val |-> val,
                                          percent |-> percent,
                                          elapsed |-> elapsed,
                                          bytes_read |-> p.bytes_read])]

\* Progress.update_ticks (progress.py:56-65).
UpdateTicks(p, ticks, position, bytes_read, elapsed) ==
    IF ticks > 0 /\ position # p.tick
    THEN LET q == [p EXCEPT !.ticks = ticks, !.tick = position,
                            !.bytes_read = bytes_read]
         IN  IF q.tick > 0 THEN Output(q, elapsed) ELSE q
    ELSE p

\* Progress.finish (progress.py:67-71).
Finish(p) ==
    IF Enabled(p)
    THEN [p EXCEPT !.out = @ \o <<[text |-> "blank", val |-> p.max_printed,
                                   percent |-> 0, elapsed |-> 0,
                                   bytes_read |-> 0],
                                  [text |-> "\r", val |-> 0, percent |-> 0,
                                   elapsed |-> 0, bytes_read |-> 0]>>]
    ELSE p

ProgressInit ==
    \E enabled \in BOOLEAN, switch \in BOOLEAN :
        progress = ProgressNew(enabled, switch)

update_ticks ==
    /\ progress.pc # "off"
    /\ Len(progress.calls) < MaxCalls
    /\ \E ticks \in 0..MaxTicks, position \in 0..MaxTicks, bytes_read \in {0, 999},
          elapsed \in {0, 12} :
          progress' = [UpdateTicks(progress, ticks, position, bytes_read, elapsed)
                          EXCEPT !.calls = Append(@, "update_ticks")]
    /\ UNCHANGED <<iteratorVars, serVars, call>>

finish ==
    /\ progress.pc # "off"
    /\ Len(progress.calls) < MaxCalls
    /\ progress' = [Finish(progress) EXCEPT !.calls = Append(@, "finish")]
    /\ UNCHANGED <<iteratorVars, serVars, call>>

ProgressNext == update_ticks \/ finish

ShellInit == IteratorUnused /\ SerializersOff /\ call = NoCall /\ ProgressInit

SpecProgress == ShellInit /\ [][ProgressNext]_vars

\* C23: a Progress bar constructed with enabled=False while the global
\* progress-bar switch is off writes nothing to its output, whatever
\* update_ticks and finish calls are made on it.
C23_DisabledWritesNothing ==
    (progress.pc = "disabled" /\ ~progress.switch) => progress.out = <<>>

\* C23 witness: a disabled bar has taken two updates to a new position and a
\* finish, and its output is empty.
C23_Witness ==
    /\ progress.pc = "disabled"
    /\ ~progress.switch
    /\ progress.calls = <<"update_ticks", "update_ticks", "finish">>
    /\ progress.ticks = 2
    /\ progress.tick = 2
    /\ progress.out = <<>>

----------------------------------------------------------------------------
\* Spark types to Arrow types (sql/pandas/types.py)

\* The most nodes (types and nested types) of a Spark type given to
\* to_arrow_type, and the most values of a series.
MaxNodes == 4
MaxValues == 2

\* A Spark DataType: its class, and the types nested in it: the elementType
\* of an ArrayType, the keyType and valueType of a MapType, the dataType of
\* each field of a StructType.
DataType(type, args) == [type |-> type, args |-> args]
ArrayType(elementType) == DataType("ArrayType", <<elementType>>)
MapType(keyType, valueType) == DataType("MapType", <<keyType, valueType>>)
StructType(fields) == DataType("StructType", fields)

\* The chain of `type(dt) == ...` tests for the types without nested types
\* (types.py:65-93, 138-139) and the pyarrow type each one gives.
AtomicArrow ==
    [BooleanType |-> "bool", ByteType |-> "int8", ShortType |-> "int16",
     IntegerType |-> "int32", LongType |-> "int64", FloatType |-> "float",
     DoubleType |-> "double", DecimalType |-> "decimal128",
     StringType |-> "string", BinaryType |-> "binary", DateType |-> "date32[day]",
     TimestampType |-> "timestamp[us, tz=UTC]",
     TimestampNTZType |-> "timestamp[us]",
     DayTimeIntervalType |-> "duration[us]", NullType |-> "null"]

\* A pyarrow DataType.
ArrowType(type, args) == [type |-> type, args |-> args]

Raises(error_class) == [raised |-> error_class, arrow_type |-> ArrowType("none", <<>>)]
Returns(arrow_type) == [raised |-> "none", arrow_type |-> arrow_type]

\* Variant: no field is seen as a struct.
AnyStructFieldMut(fields) == FALSE

\* any(type(field.dataType) == StructType for field in dt) (types.py:106, 128).
AnyStructField(fields) == \E i \in DOMAIN fields : fields[i].type = "StructType"

\* to_arrow_type(dt) (types.py:60-145) with a pyarrow older than 2.0.0 or not.
RECURSIVE to_arrow_type(_, _)
to_arrow_type(dt, old_pyarrow) ==
    CASE dt.type \in DOMAIN AtomicArrow /\ dt.type # "NullType" ->
            Returns(ArrowType(AtomicArrow[dt.type], <<>>))
      [] dt.type = "ArrayType" ->
            LET elementType == dt.args[1] IN
            IF elementType.type = "TimestampType"
            THEN Raises("UNSUPPORTED_DATA_TYPE")
            ELSE IF elementType.type = "StructType" /\ old_pyarrow
            THEN Raises("UNSUPPORTED_DATA_TYPE_FOR_ARROW_VERSION")
            ELSE IF elementType.type = "StructType" /\ AnyStructField(elementType.args)
            THEN Raises("UNSUPPORTED_DATA_TYPE_FOR_ARROW_CONVERSION")
            ELSE LET element == to_arrow_type(elementType, old_pyarrow) IN
                 IF element.raised # "none" THEN element
                 ELSE Returns(ArrowType("list", <<element.arrow_type>>))
      [] dt.type = "MapType" ->
            LET keyType == dt.args[1]
                valueType == dt.args[2]
            IN  IF old_pyarrow
                THEN Raises("UNSUPPORTED_DATA_TYPE_FOR_ARROW_VERSION")
                ELSE IF keyType.type \in {"StructType", "TimestampType"}
                        \/ valueType.type \in {"StructType", "TimestampType"}
                THEN Raises("UNSUPPORTED_DATA_TYPE_FOR_ARROW_CONVERSION")
                ELSE LET key == to_arrow_type(keyType, old_pyarrow) IN
                     IF key.raised # "none" THEN key
                     ELSE LET value == to_arrow_type(valueType, old_pyarrow) IN
                          IF value.raised # "none" THEN value
                          ELSE Returns(ArrowType("map", <<key.arrow_type,
                                                          value.arrow_type>>))
      [] dt.type = "StructType" ->
            IF AnyStructField(dt.args)
            THEN Raises("UNSUPPORTED_DATA_TYPE_FOR_ARROW_CONVERSION")
            ELSE LET fields == [i \in DOMAIN dt.args |->
                                   to_arrow_type(dt.args[i], old_pyarrow)]
                     failed == {i \in DOMAIN fields : fields[i].raised # "none"}
                 IN  IF failed # {}
                     THEN fields[CHOOSE i \in failed : \A j \in failed : i <= j]
                     ELSE Returns(ArrowType("struct",
                                     [i \in DOMAIN fields |-> fields[i].arrow_type]))
      [] dt.type = "NullType" -> Returns(ArrowType("null", <<>>))
      [] OTHER -> Raises("UNSUPPORTED_DATA_TYPE_FOR_ARROW_CONVERSION")

\* Types without nested types given to to_arrow_type: one that converts, the
\* two timestamp types, and one outside the enumeration.
AtomicTypes ==
    {DataType(type, <<>>) :
        type \in {"IntegerType", "TimestampType", "TimestampNTZType",
                  "CalendarIntervalType"}}

\* The Spark types of exactly n nodes, structs having at most two fields.
RECURSIVE TypesOfSize(_)
TypesOfSize(n) ==
    IF n = 1 THEN AtomicTypes \cup {StructType(<<>>)}
    ELSE {ArrayType(t) : t \in TypesOfSize(n - 1)}
         \cup {StructType(<<t>>) : t \in TypesOfSize(n - 1)}
         \cup UNION {{MapType(k, v) : k \in TypesOfSize(i), v \in TypesOfSize(n - 1 - i)} :
                        i \in 1..(n - 2)}
         \cup UNION {{StructType(<<a, b>>) :
                         a \in TypesOfSize(i), b \in TypesOfSize(n - 1 - i)} :
                        i \in 1..(n - 2)}

DataTypes == UNION {TypesOfSize(n) : n \in 1..MaxNodes}

\* to_arrow_type(dt) has been called.
ToArrowTypeInit ==
    \E dt \in DataTypes, old_pyarrow \in BOOLEAN :
        call = [fn |-> "to_arrow_type",
                args |-> [dt |-> dt, old_pyarrow |-> old_pyarrow],
                pc |-> "called", result |-> <<>>]

\* to_arrow_type returns or raises.
to_arrow_type_ends ==
    /\ call.fn = "to_arrow_type"
    /\ call.pc = "called"
    /\ call' = [call EXCEPT !.pc = "ended",
                            !.result = to_arrow_type(call.args.dt,
                                                     call.args.old_pyarrow)]
    /\ UNCHANGED <<iteratorVars, serVars, progress>>

----------------------------------------------------------------------------
\* Timestamp series between time zones (sql/pandas/types.py)

\* pd.NaT, and a timestamp as a number of hours.
NaT == [nat |-> TRUE, t |-> 0]
Timestamp(t) == [nat |-> FALSE, t |-> t]

\* Time zones by name with their offsets from UTC in hours; "dateutil/:" is
\* the zone of the system, here one hour east of UTC.
Zones == {"UTC", "Asia/Tokyo"}
UtcOffset(tz) == CASE tz = "UTC" -> 0 [] tz = "Asia/Tokyo" -> 9 [] OTHER -> 1

\* A pandas Series object: the object's identity, the dtype, the zone of a
\* tz-aware dtype, and the values.
Series(id, dtype, tz, values) ==
    [id |-> id, dtype |-> dtype, tz |-> tz, values |-> values]

\* _get_local_timezone() (types.py:247-260): the TZ environment variable, or
\* "dateutil/:" if it is not set.
get_local_timezone(TZ) == IF TZ = None THEN "dateutil/:" ELSE TZ

\* Variant: a tz-naive series is converted whatever the two zones are.
ZonesDifferMut(from_tz, to_tz) == TRUE

\* `from_tz != to_tz` (types.py:397).
ZonesDiffer(from_tz, to_tz) == from_tz # to_tz

\* s.dt.tz_convert(to_tz).dt.tz_localize(None) on a tz-aware series, whose
\* values are instants: a new series of the wall-clock times in to_tz.
ConvertAware(s, to_tz) ==
    Series(s.id + 1, "datetime64[ns]", None,
           [i \in DOMAIN s.values |->
               IF s.values[i].nat THEN NaT
               ELSE Timestamp(s.values[i].t + UtcOffset(to_tz))])

\* s.apply(lambda ts: ts.tz_localize(from_tz).tz_convert(to_tz)
\* .tz_localize(None) if ts is not pd.NaT else pd.NaT) (types.py:399-406): a
\* new series.
ConvertNaive(s, from_tz, to_tz) ==
    Series(s.id + 1, "datetime64[ns]", None,
           [i \in DOMAIN s.values |->
               IF s.values[i].nat THEN NaT
               ELSE Timestamp(s.values[i].t - UtcOffset(from_tz) + UtcOffset(to_tz))])

\* _check_series_convert_timestamps_localize(s, from_timezone, to_timezone)
\* (types.py:362-409).
check_series_convert_timestamps_localize(s, from_timezone, to_timezone, TZ) ==
    LET from_tz == IF Truthy(from_timezone) THEN from_timezone
                   ELSE get_local_timezone(TZ)
        to_tz == IF Truthy(to_timezone) THEN to_timezone
                 ELSE get_local_timezone(TZ)
    IN  IF s.dtype = "datetime64[ns, tz]" THEN ConvertAware(s, to_tz)
        ELSE IF s.dtype = "datetime64[ns]" /\ ZonesDiffer(from_tz, to_tz)
        THEN ConvertNaive(s, from_tz, to_tz)
        ELSE s

\* The series given to the function: tz-naive, tz-aware and of another dtype.
SeriesInputs ==
    {Series(1, dtype.dtype, dtype.tz, values) :
        dtype \in {[dtype |-> "datetime64[ns]", tz |-> None],
                   [dtype |-> "object", tz |-> None]}
                  \cup {[dtype |-> "datetime64[ns, tz]", tz |-> tz] : tz \in Zones},
        values \in SeqsUpTo({NaT, Timestamp(0), Timestamp(12)}, MaxValues)}

\* _check_series_convert_timestamps_localize has been called.
LocalizeInit ==
    \E s \in SeriesInputs, from_timezone \in Zones \cup {None},
       to_timezone \in Zones \cup {None}, TZ \in Zones \cup {None} :
        call = [fn |-> "_check_series_convert_timestamps_localize",
                args |-> [s |-> s, from_timezone |-> from_timezone,
                          to_timezone |-> to_timezone, TZ |-> TZ],
                pc |-> "called", result |-> <<>>]

\* _check_series_convert_timestamps_localize returns.
check_series_convert_timestamps_localize_returns ==
    /\ call.fn = "_check_series_convert_timestamps_localize"
    /\ call.pc = "called"
    /\ call' = [call EXCEPT
                  !.pc = "ended",
                  !.result = check_series_convert_timestamps_localize(
                                 call.args.s, call.args.from_timezone,
                                 call.args.to_timezone, call.args.TZ)]
    /\ UNCHANGED <<iteratorVars, serVars, progress>>

TypesNext == to_arrow_type_ends \/ check_series_convert_timestamps_localize_returns

TypesInit ==
    /\ IteratorUnused /\ SerializersOff /\ progress = NoProgress
    /\ (ToArrowTypeInit \/ LocalizeInit)

SpecTypes == TypesInit /\ [][TypesNext]_vars

\* C21: _check_series_convert_timestamps_localize on a tz-naive timestamp
\* series with from_timezone equal to to_timezone, both given or both
\* unspecified, returns the input series with every value unchanged, NaT
\* entries included.
C21_SameZoneUnchanged ==
    (call.fn = "_check_series_convert_timestamps_localize" /\ call.pc = "ended"
       /\ call.args.s.dtype = "datetime64[ns]"
       /\ call.args.from_timezone = call.args.to_timezone)
    => call.result = call.args.s

\* C21 witness: a tz-naive series of a timestamp and NaT went through the
\* function with both zones given as the same zone, which is not the local one.
C21_Witness ==
    /\ call.fn = "_check_series_convert_timestamps_localize"
    /\ call.pc = "ended"
    /\ call.args.s = Series(1, "datetime64[ns]", None, <<Timestamp(12), NaT>>)
    /\ call.args.from_timezone = "Asia/Tokyo"
    /\ call.args.to_timezone = "Asia/Tokyo"
    /\ call.args.TZ = "UTC"
    /\ call.result.values = <<Timestamp(12), NaT>>

\* A struct occurs in the type.
RECURSIVE HasStruct(_)
HasStruct(dt) ==
    dt.type = "StructType" \/ \E i \in DOMAIN dt.args : HasStruct(dt.args[i])

\* The shapes that to_arrow_type has to refuse, at the top of a type.
UnsupportedShape(dt) ==
    \/ dt.type = "StructType" /\ \E i \in DOMAIN dt.args : dt.args[i].type = "StructType"
    \/ /\ dt.type = "ArrayType"
       /\ dt.args[1].type = "StructType"
       /\ \E i \in DOMAIN dt.args[1].args : dt.args[1].args[i].type = "StructType"
    \/ /\ dt.type = "MapType"
       /\ \E i \in 1..2 : dt.args[i].type \in {"StructType", "TimestampType"}
    \/ dt.type = "ArrayType" /\ dt.args[1].type = "TimestampType"
    \/ dt.type \notin {"BooleanType", "ByteType", "ShortType", "IntegerType",
                       "LongType", "FloatType", "DoubleType", "DecimalType",
                       "StringType", "BinaryType", "DateType", "TimestampType",
                       "TimestampNTZType", "DayTimeIntervalType", "NullType",
                       "ArrayType", "MapType", "StructType"}

\* Such a shape occurs in the type, at the top or nested.
RECURSIVE Unsupported(_)
Unsupported(dt) ==
    UnsupportedShape(dt) \/ \E i \in DOMAIN dt.args : Unsupported(dt.args[i])

\* C22: to_arrow_type raises an unsupported-type error, and returns no type,
\* for a struct with a struct-typed field, a list whose element struct has a
\* struct-typed field, a map whose key or value type is a struct or a
\* timestamp, a list of timestamps and any type outside the enumeration, also
\* when such a type is nested inside a list, map or struct.
C22_UnsupportedRaises ==
    (call.fn = "to_arrow_type" /\ call.pc = "ended" /\ Unsupported(call.args.dt))
    => /\ call.result.raised \in {"UNSUPPORTED_DATA_TYPE",
                                  "UNSUPPORTED_DATA_TYPE_FOR_ARROW_CONVERSION",
                                  "UNSUPPORTED_DATA_TYPE_FOR_ARROW_VERSION"}
       /\ call.result.arrow_type.type = "none"

\* C22 witness: a list of structs with a struct-typed field, itself the
\* element type of a list, was refused with a current pyarrow.
C22_Witness ==
    /\ call.fn = "to_arrow_type"
    /\ call.pc = "ended"
    /\ ~call.args.old_pyarrow
    /\ call.args.dt = ArrayType(ArrayType(StructType(<<StructType(<<>>)>>)))
    /\ call.result.raised = "UNSUPPORTED_DATA_TYPE_FOR_ARROW_CONVERSION"

\* A struct is nested inside another struct of the type: as a field, or
\* inside a list or map that is a field.
RECURSIVE StructInStruct(_)
StructInStruct(dt) ==
    \/ dt.type = "StructType" /\ \E i \in DOMAIN dt.args : HasStruct(dt.args[i])
    \/ \E i \in DOMAIN dt.args : StructInStruct(dt.args[i])

\* C30: every type that to_arrow_type accepts contains no struct nested
\* inside another struct at any depth, neither directly as a field nor through
\* a list or map that is a field of the outer struct.
C30_NoStructInStruct ==
    (call.fn = "to_arrow_type" /\ call.pc = "ended" /\ call.result.raised = "none")
    => ~StructInStruct(call.args.dt)

----------------------------------------------------------------------------
\* Arrow types to Spark types (sql/pandas/types.py)

\* The chain of `types.is_...(at)` tests for the pyarrow types without nested
\* types, the timestamps apart (types.py:166-187, 190-191, 226-227), and the
\* Spark type each one gives.
AtomicSpark ==
    [bool |-> "BooleanType", int8 |-> "ByteType", int16 |-> "ShortType",
     int32 |-> "IntegerType", int64 |-> "LongType", float |-> "FloatType",
     double |-> "DoubleType", decimal128 |-> "DecimalType",
     string |-> "StringType", binary |-> "BinaryType",
     date32 |-> "DateType", duration |-> "DayTimeIntervalType",
     null |-> "NullType"]

\* The name of a pyarrow type without its unit: "date32[day]" is date32.
ArrowName(at) ==
    CASE at.type = "date32[day]" -> "date32"
      [] at.type = "duration[us]" -> "duration"
      [] OTHER -> at.type

\* types.is_timestamp(at), and at.tz of a timestamp type.
is_timestamp(at) == at.type \in {"timestamp[us]", "timestamp[us, tz=UTC]"}
tz(at) == IF at.type = "timestamp[us]" THEN None ELSE "UTC"

RaisesType(error_class) == [raised |-> error_class, spark_type |-> DataType("none", <<>>)]
ReturnsType(spark_type) == [raised |-> "none", spark_type |-> spark_type]

\* from_arrow_type(at, prefer_timestamp_ntz) (types.py:159-234) with a
\* pyarrow older than 2.0.0 or not; the calls for nested types leave
\* prefer_timestamp_ntz at its default, False.
RECURSIVE from_arrow_type(_, _, _)
from_arrow_type(at, prefer_timestamp_ntz, old_pyarrow) ==
    CASE ArrowName(at) \in DOMAIN AtomicSpark /\ at.type # "null" ->
            ReturnsType(DataType(AtomicSpark[ArrowName(at)], <<>>))
      [] is_timestamp(at) /\ prefer_timestamp_ntz /\ tz(at) = None ->
            ReturnsType(DataType("TimestampNTZType", <<>>))
      [] is_timestamp(at) -> ReturnsType(DataType("TimestampType", <<>>))
      [] at.type = "list" ->
            IF is_timestamp(at.args[1])
            THEN RaisesType("UNSUPPORTED_DATA_TYPE_FOR_ARROW_CONVERSION")
            ELSE LET value == from_arrow_type(at.args[1], FALSE, old_pyarrow) IN
                 IF value.raised # "none" THEN value
                 ELSE ReturnsType(ArrayType(value.spark_type))
      [] at.type = "map" ->
            IF old_pyarrow
            THEN RaisesType("UNSUPPORTED_DATA_TYPE_FOR_ARROW_VERSION")
            ELSE IF is_timestamp(at.args[1]) \/ is_timestamp(at.args[2])
            THEN RaisesType("UNSUPPORTED_DATA_TYPE_FOR_ARROW_CONVERSION")
            ELSE LET key == from_arrow_type(at.args[1], FALSE, old_pyarrow) IN
                 IF key.raised # "none" THEN key
                 ELSE LET item == from_arrow_type(at.args[2], FALSE, old_pyarrow) IN
                      IF item.raised # "none" THEN item
                      ELSE ReturnsType(MapType(key.spark_type, item.spark_type))
      [] at.type = "struct" ->
            IF \E i \in DOMAIN at.args : at.args[i].type = "struct"
            THEN RaisesType("UNSUPPORTED_DATA_TYPE_FOR_ARROW_CONVERSION")
            ELSE LET fields == [i \in DOMAIN at.args |->
                                   from_arrow_type(at.args[i], FALSE, old_pyarrow)]
                     failed == {i \in DOMAIN fields : fields[i].raised # "none"}
                 IN  IF failed # {}
                     THEN fields[CHOOSE i \in failed : \A j \in failed : i <= j]
                     ELSE ReturnsType(StructType(
                                     [i \in DOMAIN fields |-> fields[i].spark_type]))
      [] at.type = "dictionary" -> from_arrow_type(at.args[1], FALSE, old_pyarrow)
      [] at.type = "null" -> ReturnsType(DataType("NullType", <<>>))
      [] OTHER -> RaisesType("UNSUPPORTED_DATA_TYPE_FOR_ARROW_CONVERSION")

\* pyarrow types without nested types given to from_arrow_type: one that
\* converts, the two timestamps, null, and one outside the enumeration.
AtomicArrowTypes ==
    {ArrowType(type, <<>>) :
        type \in {"int32", "timestamp[us]", "timestamp[us, tz=UTC]", "null",
                  "large_string"}}

\* The pyarrow types of exactly n nodes: lists, dictionaries, maps and
\* structs of at most two fields.
RECURSIVE ArrowTypesOfSize(_)
ArrowTypesOfSize(n) ==
    IF n = 1 THEN AtomicArrowTypes \cup {ArrowType("struct", <<>>)}
    ELSE {ArrowType(type, <<t>>) :
             type \in {"list", "dictionary", "struct"}, t \in ArrowTypesOfSize(n - 1)}
         \cup UNION {{ArrowType(type, <<a, b>>) :
                         type \in {"map", "struct"},
                         a \in ArrowTypesOfSize(i), b \in ArrowTypesOfSize(n - 1 - i)} :
                        i \in 1..(n - 2)}

ArrowTypes == UNION {ArrowTypesOfSize(n) : n \in 1..(MaxNodes - 1)}

\* from_arrow_type(at, prefer_timestamp_ntz) has been called.
FromArrowTypeInit ==
    \E at \in ArrowTypes, prefer_timestamp_ntz \in BOOLEAN, old_pyarrow \in BOOLEAN :
        call = [fn |-> "from_arrow_type",
                args |-> [at |-> at, prefer_timestamp_ntz |-> prefer_timestamp_ntz,
                          old_pyarrow |-> old_pyarrow, dt |-> DataType("none", <<>>)],
                pc |-> "called", result |-> <<>>]

\* from_arrow_type(to_arrow_type(dt), prefer_timestamp_ntz): the type that
\* to_arrow_type returned for dt is given to from_arrow_type.
from_arrow_type_of_to_arrow_type ==
    /\ call.fn = "to_arrow_type"
    /\ call.pc = "ended"
    /\ call.result.raised = "none"
    /\ \E prefer_timestamp_ntz \in BOOLEAN :
          call' = [fn |-> "from_arrow_type",
                   args |-> [at |-> call.result.arrow_type,
                             prefer_timestamp_ntz |-> prefer_timestamp_ntz,
                             old_pyarrow |-> call.args.old_pyarrow,
                             dt |-> call.args.dt],
                   pc |-> "called", result |-> <<>>]
    /\ UNCHANGED <<iteratorVars, serVars, progress>>

\* from_arrow_type returns or raises.
from_arrow_type_ends ==
    /\ call.fn = "from_arrow_type"
    /\ call.pc = "called"
    /\ call' = [call EXCEPT !.pc = "ended",
                            !.result = from_arrow_type(call.args.at,
                                                       call.args.prefer_timestamp_ntz,
                                                       call.args.old_pyarrow)]
    /\ UNCHANGED <<iteratorVars, serVars, progress>>

ArrowInit ==
    /\ IteratorUnused /\ SerializersOff /\ progress = NoProgress
    /\ (ToArrowTypeInit \/ FromArrowTypeInit)

ArrowNext ==
    to_arrow_type_ends \/ from_arrow_type_of_to_arrow_type \/ from_arrow_type_ends

SpecArrow == ArrowInit /\ [][ArrowNext]_vars

\* C31: from_arrow_type(dictionary<T>, p) returns the same Spark type as
\* from_arrow_type(T, p) for every value type T and both values of the
\* prefer-timestamp-without-timezone flag p, and from_arrow_type of the null
\* type returns NullType and does not raise.
C31_DictionaryUnwraps ==
    (call.fn = "from_arrow_type" /\ call.pc = "ended")
    => /\ call.args.at.type = "dictionary"
             => call.result = from_arrow_type(call.args.at.args[1],
                                              call.args.prefer_timestamp_ntz,
                                              call.args.old_pyarrow)
       /\ call.args.at.type = "null"
             => call.result = ReturnsType(DataType("NullType", <<>>))

\* The Spark types are of the same kind at every level of nesting.
RECURSIVE SameKinds(_, _)
SameKinds(a, b) ==
    /\ a.type = b.type
    /\ Len(a.args) = Len(b.args)
    /\ \A i \in DOMAIN a.args : SameKinds(a.args[i], b.args[i])

\* C32: for every Spark type t that to_arrow_type accepts,
\* from_arrow_type(to_arrow_type(t), prefer_timestamp_ntz=True) succeeds and
\* returns a type of the same kind as t at every level of nesting, also for a
\* timestamp without time zone that is a struct field, a list element or a
\* map value.
C32_TypeRoundTrip ==
    (call.fn = "from_arrow_type" /\ call.pc = "ended"
       /\ call.args.dt.type # "none" /\ call.args.prefer_timestamp_ntz)
    => /\ call.result.raised = "none"
       /\ SameKinds(call.result.spark_type, call.args.dt)

----------------------------------------------------------------------------
\* Converters to pandas (sql/pandas/types.py)

\* The most field names given to _dedup_names.
MaxNames == 3

\* The number of times name occurs in names.
Count(names, name) == Cardinality({i \in DOMAIN names : names[i] = name})

\* Variant: the counter of a duplicated name starts at 1.
NextOfCountMut(names, i) ==
    1 + Cardinality({j \in 1..(i - 1) : names[j] = names[i]})

\* next(_i) of the itertools.count() of names[i] when the result list reaches
\* position i (types.py:689-690, 699): the number of earlier occurrences.
NextOfCount(names, i) == Cardinality({j \in 1..(i - 1) : names[j] = names[i]})

\* _dedup_names(names) (types.py:683-699).
dedup_names(names) ==
    IF Cardinality({names[i] : i \in DOMAIN names}) = Len(names) THEN names
    ELSE [i \in DOMAIN names |->
            IF Count(names, names[i]) > 1
            THEN names[i] \o "_" \o ToString(NextOfCount(names, i))
            ELSE names[i]]

\* _dedup_names(names) has been called.
DedupNamesInit ==
    \E names \in SeqsUpTo({"a", "b", "a_0", "a_1"}, MaxNames) :
        call = [fn |-> "_dedup_names", args |-> [names |-> names],
                pc |-> "called", result |-> <<>>]

\* _dedup_names returns.
dedup_names_returns ==
    /\ call.fn = "_dedup_names"
    /\ call.pc = "called"
    /\ call' = [call EXCEPT !.pc = "ended", !.result = dedup_names(call.args.names)]
    /\ UNCHANGED <<iteratorVars, serVars, progress>>

\* A value of a pandas Series: null (None in an object column, NaN in a float
\* column) or a number.
Null == [null |-> TRUE, v |-> 0]
Value(v) == [null |-> FALSE, v |-> v]

\* _to_corrected_pandas_type(dt) (types.py:472-500) for the numeric types
\* and BooleanType.
to_corrected_pandas_type ==
    [ByteType |-> "int8", ShortType |-> "int16", IntegerType |-> "int32",
     LongType |-> "int64", FloatType |-> "float32", DoubleType |-> "float64",
     BooleanType |-> "bool"]

\* isinstance(field.dataType, IntegralType).
IntegralTypes == {"ByteType", "ShortType", "IntegerType", "LongType"}

\* Variant: no value is seen as null.
IsNullAnyMut(pser) == FALSE

\* pser.isnull().any() (types.py:547, 555).
IsNullAny(pser) == \E i \in DOMAIN pser.values : pser.values[i].null

\* pser.astype(dtype, copy=False): an integer dtype cannot take a null and
\* raises; bool takes None as False and NaN as True and every number but 0 as
\* True; float and object keep the nulls.
astype(pser, dtype) ==
    CASE dtype \in {"int8", "int16", "int32", "int64"} /\ IsNullAny(pser) ->
            [raised |-> "ValueError", pser |-> pser]
      [] dtype = "bool" ->
            [raised |-> "none",
             pser |-> [dtype |-> dtype,
                       values |-> [i \in DOMAIN pser.values |->
                           IF pser.values[i].null
                           THEN Value(IF pser.dtype = "object" THEN 0 ELSE 1)
                           ELSE Value(IF pser.values[i].v = 0 THEN 0 ELSE 1)]]]
      [] OTHER -> [raised |-> "none", pser |-> [pser EXCEPT !.dtype = dtype]]

\* The correct_dtype that _create_converter_to_pandas(field) returns for a
\* field whose corrected pandas type is not None and that is no timestamp
\* (types.py:537-576), applied to pser.
correct_dtype(field, pser) ==
    LET pandas_type == to_corrected_pandas_type[field.dataType] IN
    IF field.dataType \in IntegralTypes /\ field.nullable
    THEN IF IsNullAny(pser) THEN astype(pser, "float64")
         ELSE astype(pser, pandas_type)
    ELSE IF field.dataType = "BooleanType" /\ field.nullable
    THEN IF IsNullAny(pser) THEN astype(pser, "object")
         ELSE astype(pser, pandas_type)
    ELSE astype(pser, pandas_type)

\* The columns given to a converter: of objects, of floats, where nulls can
\* occur, and of integers.
ColumnInputs ==
    {[dtype |-> dtype, values |-> values] :
        dtype \in {"object", "float64"},
        values \in SeqsUpTo({Null, Value(0), Value(1)}, MaxValues)}
    \cup {[dtype |-> "int64", values |-> values] :
             values \in SeqsUpTo({Value(0), Value(1)}, MaxValues)}

\* _create_converter_to_pandas(field) has returned a converter and it is
\* called with pser.
ConverterInit ==
    \E dataType \in DOMAIN to_corrected_pandas_type, nullable \in BOOLEAN,
       pser \in ColumnInputs :
        call = [fn |-> "_create_converter_to_pandas",
                args |-> [field |-> [dataType |-> dataType, nullable |-> nullable],
                          pser |-> pser],
                pc |-> "called", result |-> <<>>]

\* The converter returns or raises.
correct_dtype_returns ==
    /\ call.fn = "_create_converter_to_pandas"
    /\ call.pc = "called"
    /\ call' = [call EXCEPT !.pc = "ended",
                            !.result = correct_dtype(call.args.field, call.args.pser)]
    /\ UNCHANGED <<iteratorVars, serVars, progress>>

ConvertersInit ==
    /\ IteratorUnused /\ SerializersOff /\ progress = NoProgress
    /\ (DedupNamesInit \/ ConverterInit)

ConvertersNext == dedup_names_returns \/ correct_dtype_returns

SpecConverters == ConvertersInit /\ [][ConvertersNext]_vars

\* C37: _dedup_names returns a list of the same length in which a name that
\* occurs once is unchanged and the k-th occurrence (k = 0, 1, 2, ... in list
\* order) of a name that occurs more than once is name_k; a list without
\* duplicates is returned unchanged.
C37_SuffixesByOccurrence ==
    (call.fn = "_dedup_names" /\ call.pc = "ended")
    => LET names == call.args.names
           result == call.result
       IN  /\ Len(result) = Len(names)
           /\ \A i \in DOMAIN names :
                 LET same == {j \in DOMAIN names : names[j] = names[i]} IN
                 result[i] = IF Cardinality(same) = 1 THEN names[i]
                             ELSE names[i] \o "_"
                                  \o ToString(Cardinality({j \in same : j < i}))
           /\ (\A i, j \in DOMAIN names : i # j => names[i] # names[j])
                 => result = names

\* C37 witness: of a, b, a the two a became a_0 and a_1 and b stayed.
C37_Witness ==
    /\ call.fn = "_dedup_names"
    /\ call.pc = "ended"
    /\ call.args.names = <<"a", "b", "a">>
    /\ call.result = <<"a_0", "b", "a_1">>

\* C38: the names that _dedup_names returns are pairwise distinct for every
\* list of names, also one that holds a name of the form name_k next to
\* duplicates of name.
C38_NamesDistinct ==
    (call.fn = "_dedup_names" /\ call.pc = "ended")
    => \A i, j \in DOMAIN call.result : i # j => call.result[i] # call.result[j]

\* C39: the converter for a nullable integral field returns a float64 column
\* if the column holds a null and a column of the declared integer dtype
\* otherwise; for a nullable boolean field an object column if it holds a
\* null and a bool column otherwise; for an integral or boolean field that is
\* not nullable it always casts to the declared dtype.
C39_NullableFallback ==
    (call.fn = "_create_converter_to_pandas" /\ call.pc = "ended"
       /\ call.args.field.dataType \in IntegralTypes \cup {"BooleanType"})
    => LET field == call.args.field
           pser == call.args.pser
           declared == CASE field.dataType = "ByteType" -> "int8"
                         [] field.dataType = "ShortType" -> "int16"
                         [] field.dataType = "IntegerType" -> "int32"
                         [] field.dataType = "LongType" -> "int64"
                         [] OTHER -> "bool"
           hasNull == \E i \in DOMAIN pser.values : pser.values[i] = Null
       IN  IF field.nullable
           THEN /\ call.result.raised = "none"
                /\ call.result.pser.dtype
                      = IF ~hasNull THEN declared
                        ELSE IF field.dataType = "BooleanType" THEN "object"
                        ELSE "float64"
                /\ hasNull => call.result.pser.values = pser.values
           ELSE call.result = astype(pser, declared)

\* C39 witness: the column of a nullable IntegerType field, holding a number
\* and a null, came out as float64 with its values as they were.
C39_Witness ==
    /\ call.fn = "_create_converter_to_pandas"
    /\ call.pc = "ended"
    /\ call.args.field = [dataType |-> "IntegerType", nullable |-> TRUE]
    /\ call.args.pser = [dtype |-> "object", values |-> <<Value(1), Null>>]
    /\ call.result.pser = [dtype |-> "float64", values |-> <<Value(1), Null>>]

----------------------------------------------------------------------------
\* FlattenedValuesSerializer (serializers.py:225-247)

\* FlattenedValuesSerializer(PickleSerializer(), batchSize).
FlattenedValuesSerializer(batchSize) ==
    [class |-> "FlattenedValuesSerializer", serializer |-> "PickleSerializer",
     batchSize |-> batchSize, bestSize |-> 0]

\* A pair (key, values) of the input: the key is one of two, the values are
\* the records 1, 2, ..., len.
KeyValues(key, len) ==
    [key |-> Record(100 + key, 1), values |-> [i \in 1..len |-> Record(i, 1)]]

FlattenedInit ==
    \E batchSize \in 1..MaxBatchSize,
       pairs \in SeqsUpTo({KeyValues(key, len) : key \in 1..2, len \in 0..MaxRecords},
                          MaxBatches) :
        DumpStart(FlattenedValuesSerializer(batchSize), pairs)

\* Variant: the slice is one value longer.
ValuesSliceMut(values, n) ==
    SubSeq(values, 1, IF n + 1 < Len(values) THEN n + 1 ELSE Len(values))

\* values[i:i + n], for the values from position i on (serializers.py:241).
ValuesSlice(values, n) == SubSeq(values, 1, IF n < Len(values) THEN n ELSE Len(values))

\* FlattenedValuesSerializer._batched (serializers.py:237-241): the next
\* (key, chunk) it yields from the pairs left, the first of which may have
\* given chunks already, and the pairs left after it; a pair with no value
\* left gives no turn of `for i in range(0, len(values), n)`.
RECURSIVE FlattenedNext(_, _)
FlattenedNext(pairs, n) ==
    IF pairs = <<>> THEN [yields |-> FALSE, key |-> Record(0, 1), chunk |-> <<>>,
                          rest |-> <<>>]
    ELSE IF pairs[1].values = <<>> THEN FlattenedNext(Tail(pairs), n)
    ELSE LET chunk == ValuesSlice(pairs[1].values, n) IN
         [yields |-> TRUE, key |-> pairs[1].key, chunk |-> chunk,
          rest |-> <<[pairs[1] EXCEPT
                        !.values = SubSeq(@, Len(chunk) + 1, Len(@))]>>
                   \o Tail(pairs)]

\* BatchedSerializer.dump_stream (serializers.py:214-215) of a
\* FlattenedValuesSerializer: the wrapped serializer writes one (key, chunk)
\* that _batched yields, pickled as the key followed by the values.
flattened_dump_stream ==
    /\ ser_pc = "dump"
    /\ serializer.class = "FlattenedValuesSerializer"
    /\ LET b == FlattenedNext(records, serializer.batchSize)
           w == write_with_length(serializer.serializer,
                                  PyList(<<b.key>> \o b.chunk), stream)
       IN  /\ b.yields
           /\ IF w.raised # "none"
              THEN /\ ser_pc' = "raised"
                   /\ raised' = w.raised
                   /\ UNCHANGED <<records, stream, emitted>>
              ELSE /\ stream' = w.stream
                   /\ records' = b.rest
                   /\ emitted' = Append(emitted, [key |-> b.key, chunk |-> b.chunk])
                   /\ UNCHANGED <<ser_pc, raised>>
    /\ UNCHANGED <<iteratorVars, utilVars, serializer, source, cut, loaded, batch>>

\* _batched is exhausted, dump_stream returns and the written stream reaches
\* load_stream.
flattened_dump_returns ==
    /\ ser_pc = "dump"
    /\ serializer.class = "FlattenedValuesSerializer"
    /\ ~FlattenedNext(records, serializer.batchSize).yields
    /\ ser_pc' = "load"
    /\ UNCHANGED <<iteratorVars, utilVars, serializer, source, records, stream, cut,
                   loaded, raised, batch, emitted>>

\* FlattenedValuesSerializer.load_stream (serializers.py:243-244): one item
\* of the wrapped serializer's load_stream.
flattened_load_stream ==
    /\ ser_pc = "load"
    /\ serializer.class = "FlattenedValuesSerializer"
    /\ LET r == read_with_length(serializer.serializer, stream) IN
       /\ stream' = r.rest
       /\ IF r.raised = "EOFError"
          THEN /\ ser_pc' = "done"
               /\ UNCHANGED <<loaded, raised>>
          ELSE IF r.raised # "none" \/ r.obj.type # "list"
          THEN /\ ser_pc' = "raised"
               /\ raised' = IF r.raised # "none" THEN r.raised ELSE r.obj.type
               /\ UNCHANGED loaded
          ELSE /\ loaded' = Append(loaded, [key |-> Head(r.obj.value),
                                            chunk |-> Tail(r.obj.value)])
               /\ UNCHANGED <<ser_pc, raised>>
    /\ UNCHANGED <<iteratorVars, utilVars, serializer, source, records, cut, batch,
                   emitted>>

FlattenedSpecInit == IteratorUnused /\ UtilitiesOff /\ FlattenedInit

FlattenedSpecNext ==
    flattened_dump_stream \/ flattened_dump_returns \/ flattened_load_stream

SpecFlattened == FlattenedSpecInit /\ [][FlattenedSpecNext]_vars

\* The chunks of n values that values falls into, the last one possibly
\* shorter, each paired with key.
RECURSIVE ChunksOf(_, _, _)
ChunksOf(key, values, n) ==
    IF values = <<>> THEN <<>>
    ELSE IF Len(values) <= n THEN <<[key |-> key, chunk |-> values]>>
    ELSE <<[key |-> key, chunk |-> SubSeq(values, 1, n)]>>
         \o ChunksOf(key, SubSeq(values, n + 1, Len(values)), n)

RECURSIVE ChunksOfAll(_, _)
ChunksOfAll(pairs, n) ==
    IF pairs = <<>> THEN <<>>
    ELSE ChunksOf(pairs[1].key, pairs[1].values, n) \o ChunksOfAll(Tail(pairs), n)

\* C35: FlattenedValuesSerializer with chunk size n writes, for each input
\* pair (key, values), the pairs (key, chunk) in order, the chunks being the
\* consecutive slices of values of exactly n elements, the last one possibly
\* shorter, whose concatenation is values; load_stream returns these
\* (key, chunk) pairs as written, neither flattened nor merged.
C35_ChunksInOrder ==
    LET expected == ChunksOfAll(source, serializer.batchSize) IN
    /\ ser_pc # "raised"
    /\ Len(emitted) <= Len(expected)
    /\ emitted = SubSeq(expected, 1, Len(emitted))
    /\ ser_pc # "dump" => emitted = expected
    /\ Len(loaded) <= Len(emitted)
    /\ loaded = SubSeq(emitted, 1, Len(loaded))
    /\ ser_pc = "done" => loaded = expected

\* C35 witness: with chunk size 2 the pair of key 1 and three values and the
\* pair of key 2 and one value were written as three pairs, of 2, 1 and 1
\* values, and read back as these three.
C35_Witness ==
    /\ serializer = FlattenedValuesSerializer(2)
    /\ source = <<KeyValues(1, 3), KeyValues(2, 1)>>
    /\ ser_pc = "done"
    /\ [i \in DOMAIN loaded |-> Len(loaded[i].chunk)] = <<2, 1, 1>>
    /\ [i \in DOMAIN loaded |-> loaded[i].key]
          = <<Record(101, 1), Record(101, 1), Record(102, 1)>>

\* C36: FlattenedValuesSerializer writes at least one (key, chunk) record for
\* every input pair (key, values), so a key whose list of values is empty is
\* still in the serialized output.
C36_EveryKeyWritten ==
    ser_pc # "dump"
    => \A i \in DOMAIN source : \E j \in DOMAIN emitted : emitted[j].key = source[i].key

----------------------------------------------------------------------------
\* The foreachBatch worker (connect/streaming/worker/foreach_batch_worker.py)

\* The most requests the worker finds on its input.
MaxRequests == 3

\* traceback.format_exc().encode("utf-8"), here three bytes.
ExcInfo == BytesOf(<<84, 114, 97>>)

\* write_with_length(obj, stream) of the module (serializers.py:554-556).
module_write_with_length(obj, out) == Concat(write_int(PyLen(obj), out).stream, obj)

\* The `except BaseException as e:` block of main
\* (foreach_batch_worker.py:80-98): what is on outfile after it. With
\* SPARK_SIMPLIFIED_TRACEBACK set it calls try_simplify_traceback, a name the
\* module does not define; the NameError is caught by the inner
\* `except BaseException:`, which prints to stderr and writes nothing.
ReplyToFailure(simplified, out) ==
    IF simplified THEN out
    ELSE module_write_with_length(
             ExcInfo, Concat(out, StructPackNegative(PYTHON_EXCEPTION_THROWN)))

\* main has written the 0 of its initialization and enters `while True:`;
\* the input holds requests whose user function returns or raises.
WorkerInit ==
    \E requests_in \in SeqsUpTo({"returns", "raises"}, MaxRequests),
       simplified \in BOOLEAN :
        call = [fn |-> "foreach_batch_worker.main",
                args |-> [requests |-> requests_in, simplified |-> simplified],
                pc |-> "read",
                result |-> [read |-> 0, outfile |-> write_int(Wide(0), <<>>).stream,
                            replies |-> <<>>]]

\* df_ref_id = utf8_deserializer.loads(infile); batch_id = read_long(infile)
\* (foreach_batch_worker.py:74-75).
worker_reads_request ==
    /\ call.fn = "foreach_batch_worker.main"
    /\ call.pc = "read"
    /\ call.result.read < Len(call.args.requests)
    /\ call' = [call EXCEPT !.pc = "process", !.result.read = @ + 1]
    /\ UNCHANGED <<iteratorVars, serVars, progress>>

\* The try statement around process(df_ref_id, int(batch_id)) and
\* outfile.flush() (foreach_batch_worker.py:78-100).
worker_processes_batch ==
    /\ call.fn = "foreach_batch_worker.main"
    /\ call.pc = "process"
    /\ LET out == call.result.outfile
           new == IF call.args.requests[call.result.read] = "returns"
                  THEN write_int(Wide(0), out).stream
                  ELSE ReplyToFailure(call.args.simplified, out)
       IN  call' = [call EXCEPT
                      !.pc = "read",
                      !.result.outfile = new,
                      !.result.replies = Append(@, Drop(new, PyLen(out).lo))]
    /\ UNCHANGED <<iteratorVars, serVars, progress>>

WorkerSpecInit ==
    IteratorUnused /\ SerializersOff /\ progress = NoProgress /\ WorkerInit

WorkerNext == worker_reads_request \/ worker_processes_batch

SpecWorker == WorkerSpecInit /\ [][WorkerNext]_vars

\* The reply a request has to get: the integer 0, or the marker -2 and the
\* length-prefixed traceback text.
ExpectedReply(behaviour) ==
    IF behaviour = "returns" THEN BytesOf(<<0, 0, 0, 0>>)
    ELSE Concat(BytesOf(<<255, 255, 255, 254, 0, 0, 0, 3>>), ExcInfo)

\* C40: for every (dataframe id, batch id) request read from its input the
\* foreachBatch worker writes exactly one reply before it reads the next
\* request: the integer 0 if the user function returned normally, else the
\* PYTHON_EXCEPTION_THROWN marker (-2) followed by the length-prefixed
\* traceback text; the request loop goes on after a failed batch.
C40_OneReplyPerRequest ==
    (call.fn = "foreach_batch_worker.main" /\ call.pc = "read")
    => /\ Len(call.result.replies) = call.result.read
       /\ \A i \in DOMAIN call.result.replies :
             call.result.replies[i] = ExpectedReply(call.args.requests[i])

----------------------------------------------------------------------------
\* A next() call that ends with an error

\* C33: a next() call that ends by raising an error leaves the reattach
\* cursor and the completed flag as they were, dispatches no release
\* notification and marks no unit as consumed.  The cursor, the flag, the
\* release notifications and the returned units change only in the part of
\* send that follows a True from _has_next (reattach.py:94-104), and a call
\* that has reached that part ends by returning its unit.
C33_FailedCallChangesNothing ==
    [][/\ (\/ last_returned_response_id' # last_returned_response_id
           \/ result_complete' # result_complete
           \/ ReleasesDispatched' # ReleasesDispatched
           \/ returned' # returned)
          => pc \in {"advance", "release"}
       /\ pc \in {"advance", "release"}
          => \/ pc' \in {"advance", "release"}
             \/ pc' = "idle" /\ outcome' = "unit"]_vars

\* A call has ended with an error after its retries were used up, every one
\* of them having re-opened the stream; units were returned before it, the
\* cursor is at the last of them and each of them has its one release.
C33_Witness ==
    /\ pc = "idle" /\ outcome = "error_retryable"
    /\ retry_count = MaxRetries /\ reattachInCall = MaxRetries
    /\ returned # <<>> /\ ~result_complete
    /\ last_returned_response_id = Unit(returned[Len(returned)]).response_id
    /\ Len(ReleasesDispatched) = Len(returned)

----------------------------------------------------------------------------
\* The release threads

\* C34: release notifications run on their own detached threads and are
\* unordered.  Whatever the order of their dispatch, each notification still
\* on its way can be the next to reach the server, and while notifications
\* are on their way the iterator can go on to its next next() call.
C34_ReleasesUnordered ==
    /\ \A request \in inflight : ENABLED release_target(request)
    /\ (inflight # {} /\ pc = "idle") => ENABLED send

\* Two releases dispatched by successive next() calls have changed places:
\* the 'release all' of the last unit has reached the server while the
\* 'release up to X' dispatched by the call before it is still on its way.
C34_Witness ==
    /\ Len(ReleasesDispatched) >= 2
    /\ ReleasesDispatched[Len(ReleasesDispatched)].release = "release_all"
    /\ ReleasesDispatched[Len(ReleasesDispatched) - 1].release = "release_until"
    /\ srvFreed
    /\ inflight = {[k \in DOMAIN ReleasesDispatched[Len(ReleasesDispatched) - 1] \ {"rpc"}
                      |-> ReleasesDispatched[Len(ReleasesDispatched) - 1][k]]}
    /\ srvReleased < Position(ReleasesDispatched[Len(ReleasesDispatched) - 1].response_id)

====
